---------------------------- MODULE Spec2Model ----------------------------
(***************************************************************************)
(* A model of the build-time FFI generator of rust-raylib (build/api.rs): *)
(* the C type string mapper format_type, the enum value name normalizer   *)
(* Enum::format_value_name, and the enum emitter Enum::generate_code with  *)
(* its bitflags variant, the struct, callback and function emitters, the   *)
(* whole run of main over one Api (build/main.rs), and of the safe         *)
(* wrappers (src/): the lives of the wrapper values up to their drop,      *)
(* Texture::update and Texture::update_rect, the drawing-mode guards of    *)
(* drawing.rs, the texture coordinate accessors of Mesh,                   *)
(* ModelAnimation::from_file, the reference-counted textures of            *)
(* textures.rs, and Color::to_hex / Color::from_hex with the Color         *)
(* constants.                                                              *)
(*                                                                         *)
(* Rust strings are TLA+ strings; they are taken apart with Len, SubSeq    *)
(* and \o only, so prefix/suffix stripping, find, split and the ASCII      *)
(* lower-casing are computed character by character as the code does.      *)
(***************************************************************************)
EXTENDS Integers, Sequences, FiniteSets, TLC

VARIABLES
    pc,          \* position of the run: "start", a loop label, "done"
    data_type,   \* format_type: the argument
    type_result, \* format_type: [panic, out] once it has returned
    name,        \* Enum.name
    raw_parts,   \* the words the raw value name is written with
    value_name,  \* format_value_name: the argument (raw_parts joined by '_')
    name_result, \* format_value_name: the returned identifier
    values,      \* Enum.values: sequence of [name, value]
    idx,         \* generate_code: index of the next value of the loop
    seen,        \* generate_code: the FnvHashSet `values`
    code,        \* generate_code: the items pushed to `code`, in order
    decl,        \* the Function or Struct whose code is generated
    emit,        \* [panic, pieces]: the strings that run pushed, in order
    api,         \* main: the deserialized Api
    sections,    \* Api::generate_code: what each section pushed to `code` so far
    file,        \* main: raylib_ffi.rs, [written, pieces]
    wrappers,    \* the wrapper values constructed so far: [type, state, used, ...]
    native,      \* the calls made to the native library, in order
    texture,     \* a Texture: the width, height and format of its raw value
    call,        \* the method called on the texture and its arguments
    returned     \* what the method returned, "none" before it has

vars == <<pc, data_type, type_result, name, raw_parts, value_name,
          name_result, values, idx, seen, code, decl, emit, api, sections,
          file, wrappers, native, texture, call, returned>>

\* the variables of the runs on a whole item and on the whole Api
\* the variables of the runs of the safe wrappers of src/
wrapperVars == <<wrappers, native, texture, call, returned>>

otherVars == <<decl, emit, api, sections, file, wrapperVars>>

NoEmit == [panic |-> FALSE, pieces |-> <<>>]

NoFile == [pieces |-> <<>>, written |-> FALSE]

NoApi == [defines |-> <<>>, structs |-> <<>>, aliases |-> <<>>, enums |-> <<>>,
          callbacks |-> <<>>, functions |-> <<>>]

WrapperIdle ==
    /\ wrappers = <<>>
    /\ native = <<>>
    /\ texture = <<>>
    /\ call = <<>>
    /\ returned = "none"

OtherIdle ==
    /\ WrapperIdle
    /\ decl = <<>>
    /\ emit = NoEmit
    /\ api = NoApi
    /\ sections = <<>>
    /\ file = NoFile

---------------------------------------------------------------------------
(* Bounds of the model                                                     *)

MaxArrayLen == 4
MaxParts == 3
MaxValues == 3
MaxIdents == 3
MaxDefines == 2
MaxSide == 2
MaxWrappers == 2

\* the most draw-mode guards made in one run, the draw handle included
MaxGuards == 3

\* the most vertices of a mesh
MaxVertices == 2

\* the most ModelAnimation values made in one run
MaxAnimations == 3

\* the most calls of ModelAnimation::from_file in one run
MaxLoads == 2

\* the most reference-counted texture values made in one run
MaxShared == 3

---------------------------------------------------------------------------
(* str primitives                                                          *)

\* A u32 is kept as two 16-bit halves [hi, lo] (value hi * 2^16 + lo), so that
\* the whole 32-bit range, its overflow and its bit operations are exact.
Half == 2^16

U32(n) == [hi |-> n \div Half, lo |-> n % Half]

U32Max == [hi |-> Half - 1, lo |-> Half - 1]

CharAt(s, p) == SubSeq(s, p, p)

\* &s[a..b] with 0-based, half-open byte offsets
Slice(s, a, b) == SubSeq(s, a + 1, b)

starts_with(s, p) == Len(s) >= Len(p) /\ SubSeq(s, 1, Len(p)) = p

ends_with(s, p) == Len(s) >= Len(p) /\ SubSeq(s, Len(s) - Len(p) + 1, Len(s)) = p

strip_prefix(s, p) ==
    IF starts_with(s, p)
    THEN [some |-> TRUE, rest |-> SubSeq(s, Len(p) + 1, Len(s))]
    ELSE [some |-> FALSE, rest |-> s]

strip_suffix(s, p) ==
    IF ends_with(s, p)
    THEN [some |-> TRUE, rest |-> SubSeq(s, 1, Len(s) - Len(p))]
    ELSE [some |-> FALSE, rest |-> s]

\* str::find(char): the 0-based offset of the first occurrence
find(s, c) ==
    IF \E p \in 1..Len(s) : CharAt(s, p) = c
    THEN [some |-> TRUE,
          pos |-> (CHOOSE p \in 1..Len(s) :
                      /\ CharAt(s, p) = c
                      /\ \A q \in 1..(p - 1) : CharAt(s, q) # c) - 1]
    ELSE [some |-> FALSE, pos |-> 0]

DigitChars == "0123456789"

is_ascii_digit(c) == \E d \in 1..10 : CharAt(DigitChars, d) = c

DigitValue(c) == (CHOOSE d \in 1..10 : CharAt(DigitChars, d) = c) - 1

contains_digit(s) == \E p \in 1..Len(s) : is_ascii_digit(CharAt(s, p))

\* <u32 as FromStr>::from_str: an optional '+', then at least one digit, every
\* step a checked acc * 10 + digit
RECURSIVE ParseDigits(_, _)
ParseDigits(s, acc) ==
    IF Len(s) = 0 THEN [ok |-> TRUE, val |-> acc]
    ELSE IF ~is_ascii_digit(Head(s)) THEN [ok |-> FALSE, val |-> U32(0)]
    ELSE LET lo == acc.lo * 10 + DigitValue(Head(s))
             hi == acc.hi * 10 + (lo \div Half)
         IN  IF hi >= Half THEN [ok |-> FALSE, val |-> U32(0)]
             ELSE ParseDigits(Tail(s), [hi |-> hi, lo |-> lo % Half])

ParseU32(s) ==
    LET digits == IF starts_with(s, "+") THEN Tail(s) ELSE s
    IN  IF Len(digits) = 0 THEN [ok |-> FALSE, val |-> U32(0)]
        ELSE ParseDigits(digits, U32(0))

\* <u32 as Display>::fmt: the decimal digits, most significant first
RECURSIVE FormatU32(_)
FormatU32(v) ==
    IF v.hi = 0 /\ v.lo < 10 THEN CharAt(DigitChars, v.lo + 1)
    ELSE LET t == (v.hi % 10) * Half + v.lo
         IN  FormatU32([hi |-> v.hi \div 10, lo |-> t \div 10])
                 \o CharAt(DigitChars, (t % 10) + 1)

UpperChars == "ABCDEFGHIJKLMNOPQRSTUVWXYZ"
LowerChars == "abcdefghijklmnopqrstuvwxyz"

to_ascii_lowercase(c) ==
    IF \E k \in 1..26 : CharAt(UpperChars, k) = c
    THEN CharAt(LowerChars, CHOOSE k \in 1..26 : CharAt(UpperChars, k) = c)
    ELSE c

RECURSIVE make_ascii_lowercase(_)
make_ascii_lowercase(s) ==
    IF Len(s) = 0 THEN ""
    ELSE to_ascii_lowercase(Head(s)) \o make_ascii_lowercase(Tail(s))

---------------------------------------------------------------------------
(* format_type                                                             *)

\* the qualifier is noticed but left in the type name
StripConst_KeepPrefix(dt_in) ==
    [dt |-> dt_in, is_const |-> starts_with(dt_in, "const ")]

\* api.rs 84-88: (dt, is_const)
StripConst(dt_in) ==
    LET c == strip_prefix(dt_in, "const ")
    IN  [dt |-> c.rest, is_const |-> c.some]

\* the base name taken up to and including the bracket
ArrayBase_Inclusive(dt, pos1) == Slice(dt, 0, pos1 + 1)

\* api.rs 96: &dt[..pos1]
ArrayBase(dt, pos1) == Slice(dt, 0, pos1)

\* api.rs 90-101: (dt, ref_type); the two unwraps and the slice may panic
ParseRef(dt) ==
    LET ref == strip_suffix(dt, " *")
        dref == strip_suffix(dt, " **")
        pos1 == find(dt, "[")
        pos2 == find(dt, "]")
    IN  IF ref.some
        THEN [panic |-> FALSE, dt |-> ref.rest, ref_type |-> "Ref", size |-> U32(0)]
        ELSE IF dref.some
        THEN [panic |-> FALSE, dt |-> dref.rest, ref_type |-> "DoubleRef",
              size |-> U32(0)]
        ELSE IF pos1.some
        THEN IF ~pos2.some \/ pos1.pos + 1 > pos2.pos
             THEN [panic |-> TRUE, dt |-> dt, ref_type |-> "Array", size |-> U32(0)]
             ELSE LET n == ParseU32(Slice(dt, pos1.pos + 1, pos2.pos))
                  IN  IF ~n.ok
                      THEN [panic |-> TRUE, dt |-> dt, ref_type |-> "Array", size |-> U32(0)]
                      ELSE [panic |-> FALSE, dt |-> ArrayBase(dt, pos1.pos),
                            ref_type |-> "Array", size |-> n.val]
        ELSE [panic |-> FALSE, dt |-> dt, ref_type |-> "None", size |-> U32(0)]

\* the table without its last entry
TypeStr_NoVaList(dt) ==
    CASE dt = "float" -> "core::ffi::c_float"
      [] dt = "double" -> "core::ffi::c_double"
      [] dt = "unsigned char" -> "core::ffi::c_uchar"
      [] dt = "signed char" -> "core::ffi::c_schar"
      [] dt = "char" -> "core::ffi::c_char"
      [] dt = "unsigned short" -> "core::ffi::c_ushort"
      [] dt \in {"signed short", "short"} -> "core::ffi::c_short"
      [] dt = "unsigned int" -> "core::ffi::c_uint"
      [] dt \in {"signed int", "int"} -> "core::ffi::c_int"
      [] dt = "unsigned long" -> "core::ffi::c_ulong"
      [] dt \in {"signed long", "long"} -> "core::ffi::c_long"
      [] dt = "unsigned long long" -> "core::ffi::c_ulonglong"
      [] dt \in {"signed long long", "long long"} -> "core::ffi::c_longlong"
      [] dt = "void" -> "core::ffi::c_void"
      [] OTHER -> dt

\* api.rs 103-120: the lookup table
TypeStr(dt) ==
    CASE dt = "float" -> "core::ffi::c_float"
      [] dt = "double" -> "core::ffi::c_double"
      [] dt = "unsigned char" -> "core::ffi::c_uchar"
      [] dt = "signed char" -> "core::ffi::c_schar"
      [] dt = "char" -> "core::ffi::c_char"
      [] dt = "unsigned short" -> "core::ffi::c_ushort"
      [] dt \in {"signed short", "short"} -> "core::ffi::c_short"
      [] dt = "unsigned int" -> "core::ffi::c_uint"
      [] dt \in {"signed int", "int"} -> "core::ffi::c_int"
      [] dt = "unsigned long" -> "core::ffi::c_ulong"
      [] dt \in {"signed long", "long"} -> "core::ffi::c_long"
      [] dt = "unsigned long long" -> "core::ffi::c_ulonglong"
      [] dt \in {"signed long long", "long long"} -> "core::ffi::c_longlong"
      [] dt = "void" -> "core::ffi::c_void"
      [] dt = "va_list" -> "*mut core::ffi::c_void"
      [] OTHER -> dt

\* the two words exchanged
Mutability_Swapped(is_const) == IF is_const THEN "mut" ELSE "const"

\* api.rs 122
Mutability(is_const) == IF is_const THEN "const" ELSE "mut"

\* api.rs 124-129
Compose(ref_type, is_const, type_str, size) ==
    CASE ref_type = "None" -> type_str
      [] ref_type = "Ref" -> "*" \o Mutability(is_const) \o " " \o type_str
      [] ref_type = "DoubleRef" ->
            "*" \o Mutability(is_const) \o " *" \o Mutability(is_const)
                \o " " \o type_str
      [] ref_type = "Array" -> "[" \o type_str \o "; " \o FormatU32(size) \o "]"

format_type(dt_in) ==
    LET c == StripConst(dt_in)
        r == ParseRef(c.dt)
    IN  IF r.panic
        THEN [panic |-> TRUE, out |-> ""]
        ELSE [panic |-> FALSE,
              out |-> Compose(r.ref_type, c.is_const, TypeStr(r.dt), r.size)]


---------------------------------------------------------------------------
(* The run of format_type on one type string                               *)

TableNames ==
    {"float", "double", "unsigned char", "signed char", "char",
     "unsigned short", "signed short", "short", "unsigned int", "signed int",
     "int", "unsigned long", "signed long", "long", "unsigned long long",
     "signed long long", "long long", "void", "va_list"}

OtherNames == {"Vector2", "rAudioBuffer", "floats"}

BaseNames == TableNames \cup OtherNames

Sizes == {U32(n) : n \in 0..MaxArrayLen} \cup {U32(32), U32Max}

ArraySuffixes ==
    {"[" \o FormatU32(n) \o "]" : n \in Sizes}
        \cup {" [" \o FormatU32(n) \o "]" : n \in Sizes}

MalformedSuffixes ==
    {"[", "[x]", "[]", "]4[", "[04]", "[+4]", "[-1]", "[4294967296]", "[4] *"}

Suffixes == {"", " *", " **"} \cup ArraySuffixes \cup MalformedSuffixes

TypeStrings == {c \o b \o s : c \in {"", "const "}, b \in BaseNames, s \in Suffixes}

NoResult == [panic |-> FALSE, out |-> ""]

EnumIdle ==
    /\ name = ""
    /\ raw_parts = <<>>
    /\ value_name = ""
    /\ name_result = ""
    /\ values = <<>>
    /\ idx = 0
    /\ seen = {}
    /\ code = <<>>

InitType ==
    /\ pc = "format_type"
    /\ data_type \in TypeStrings
    /\ type_result = NoResult
    /\ EnumIdle
    /\ OtherIdle

FormatType ==
    /\ pc = "format_type"
    /\ type_result' = format_type(data_type)
    /\ pc' = "type_done"
    /\ UNCHANGED <<data_type, name, raw_parts, value_name, name_result,
                   values, idx, seen, code, otherVars>>

NextType == FormatType

SpecType == InitType /\ [][NextType]_vars

---------------------------------------------------------------------------
(* Properties of format_type                                               *)

TypeDone == pc = "type_done"

Returned(out) == [panic |-> FALSE, out |-> out]

IsConstInput == starts_with(data_type, "const ")

\* C1 as stated: an array type written with a space before the bracket,
\* b + " [" + N + "]" with b in the lookup table, comes out as
\* "[" + map(b) + "; " + N + "]".
C1_SpacedArrayIsMapped ==
    \A b \in TableNames, n \in Sizes :
        (TypeDone /\ data_type = b \o " [" \o FormatU32(n) \o "]")
            => type_result = Returned("[" \o TypeStr(b) \o "; " \o FormatU32(n) \o "]")

\* C1 amended: the base name is mapped through the lookup table when the array
\* is written without a space, b + "[" + N + "]" gives "[" + map(b) + "; " + N
\* + "]"; written with a space, the base name keeps the space, is not found in
\* the table and comes out unmapped: "[" + b + " ; " + N + "]".
C1_ArrayIsMapped ==
    \A b \in TableNames, n \in Sizes :
        /\ (TypeDone /\ data_type = b \o "[" \o FormatU32(n) \o "]")
            => type_result = Returned("[" \o TypeStr(b) \o "; " \o FormatU32(n) \o "]")
        /\ (TypeDone /\ data_type = b \o " [" \o FormatU32(n) \o "]")
            => type_result = Returned("[" \o b \o " ; " \o FormatU32(n) \o "]")

C1_Witness ==
    /\ TypeDone
    /\ data_type = "float[4]"
    /\ type_result = Returned("[core::ffi::c_float; 4]")

\* no leading "const ", no trailing " *" or " **", no '['
IsScalarInput ==
    /\ ~IsConstInput
    /\ ~ends_with(data_type, " *")
    /\ ~ends_with(data_type, " **")
    /\ ~find(data_type, "[").some

DocumentedTable ==
    {<<"float", "core::ffi::c_float">>, <<"double", "core::ffi::c_double">>,
     <<"unsigned char", "core::ffi::c_uchar">>,
     <<"signed char", "core::ffi::c_schar">>, <<"char", "core::ffi::c_char">>,
     <<"unsigned short", "core::ffi::c_ushort">>,
     <<"signed short", "core::ffi::c_short">>, <<"short", "core::ffi::c_short">>,
     <<"unsigned int", "core::ffi::c_uint">>, <<"signed int", "core::ffi::c_int">>,
     <<"int", "core::ffi::c_int">>, <<"unsigned long", "core::ffi::c_ulong">>,
     <<"signed long", "core::ffi::c_long">>, <<"long", "core::ffi::c_long">>,
     <<"unsigned long long", "core::ffi::c_ulonglong">>,
     <<"signed long long", "core::ffi::c_longlong">>,
     <<"long long", "core::ffi::c_longlong">>, <<"void", "core::ffi::c_void">>}

ScalarFollows(table) ==
    (TypeDone /\ IsScalarInput) =>
        /\ ~type_result.panic
        /\ \A e \in table : data_type = e[1] => type_result.out = e[2]
        /\ (\A e \in table : data_type # e[1]) => type_result.out = data_type

\* C2 as stated: a scalar type string comes out as its table entry when it is
\* one of the 18 listed names, and unchanged for every other name.
C2_ScalarTable18 == ScalarFollows(DocumentedTable)

\* C2 amended: the table has a 19th entry, va_list, which comes out as
\* "*mut core::ffi::c_void"; a scalar type string comes out as its table entry
\* when it is one of the 19 names, and unchanged for every other name.
C2_ScalarTable ==
    ScalarFollows(DocumentedTable \cup {<<"va_list", "*mut core::ffi::c_void">>})

C2_Witness ==
    /\ TypeDone
    /\ data_type = "va_list"
    /\ type_result = Returned("*mut core::ffi::c_void")

\* C3: b + " *" comes out as "*M " + map(b) and b + " **" as "*M *M " + map(b),
\* M being "const" when the input starts with "const " and "mut" otherwise,
\* the same at both levels; an input ending in " **" is a double pointer.
C3_Pointers ==
    LET M == IF IsConstInput THEN "const" ELSE "mut"
    IN  /\ \A b \in BaseNames, c \in {"", "const "} :
            /\ (TypeDone /\ data_type = c \o b \o " *")
                => type_result = Returned("*" \o M \o " " \o TypeStr(b))
            /\ (TypeDone /\ data_type = c \o b \o " **")
                => type_result = Returned("*" \o M \o " *" \o M \o " " \o TypeStr(b))
        /\ (TypeDone /\ ends_with(data_type, " **"))
            => /\ starts_with(type_result.out, "*" \o M \o " *" \o M \o " ")
               /\ ParseRef(StripConst(data_type).dt).ref_type = "DoubleRef"

C3_Witness ==
    /\ TypeDone
    /\ data_type = "const char **"
    /\ type_result = Returned("*const *const core::ffi::c_char")

\* C4: for a scalar or array type string t, "const " + t comes out as t does;
\* for a pointer type string the two outputs are "*const " and "*mut " (resp.
\* "*const *const " and "*mut *mut ") followed by the same text.
C4_ConstOnlyMutability ==
    LET with_const == format_type("const " \o data_type)
        PtrAgree(m, c) ==
            /\ ~with_const.panic /\ ~type_result.panic
            /\ starts_with(type_result.out, m)
            /\ starts_with(with_const.out, c)
            /\ strip_prefix(type_result.out, m).rest = strip_prefix(with_const.out, c).rest
    IN  (TypeDone /\ ~IsConstInput) =>
            IF ends_with(data_type, " **") THEN PtrAgree("*mut *mut ", "*const *const ")
            ELSE IF ends_with(data_type, " *") THEN PtrAgree("*mut ", "*const ")
            ELSE with_const = type_result

C4_Witness ==
    /\ TypeDone
    /\ data_type = "unsigned int[4]"
    /\ type_result = Returned("[core::ffi::c_uint; 4]")
    /\ format_type("const unsigned int[4]") = type_result

---------------------------------------------------------------------------
(* Enum::format_value_name                                                 *)

\* str::split('_'): the pieces between the separators, in order
RECURSIVE split(_)
split(s) ==
    LET f == find(s, "_")
    IN  IF ~f.some THEN <<s>>
        ELSE <<Slice(s, 0, f.pos)>> \o split(Slice(s, f.pos + 1, Len(s)))

\* str::split_inclusive('_'): each piece keeps the separator that ends it
RECURSIVE split_inclusive(_)
split_inclusive(s) ==
    LET f == find(s, "_")
    IN  IF Len(s) = 0 THEN <<>>
        ELSE IF ~f.some THEN <<s>>
        ELSE <<Slice(s, 0, f.pos + 1)>> \o split_inclusive(Slice(s, f.pos + 1, Len(s)))

\* Iterator::skip(n)
skip(parts, n) == SubSeq(parts, n + 1, Len(parts))

\* Iterator::collect::<String>()
RECURSIVE collect(_)
collect(parts) ==
    IF Len(parts) = 0 THEN "" ELSE Head(parts) \o collect(Tail(parts))

\* one leading word dropped whatever the enum
prefix_count_AlwaysOne(enum_name) == 1

\* api.rs 140-156
prefix_count(enum_name) ==
    IF enum_name \in {"CubemapLayout", "GamepadAxis", "GamepadButton",
                      "MaterialMapIndex", "MouseButton", "MouseCursor",
                      "PixelFormat", "ShaderAttributeDataType",
                      "ShaderLocationIndex", "ShaderUniformDataType",
                      "TextureFilter", "TextureWrap"}
    THEN 2
    ELSE 1

\* the digit exemption applied in every enum
Exempt_AnyEnum(enum_name, s) == contains_digit(s)

\* api.rs 171: self.name == "PixelFormat" && s.contains(is_ascii_digit)
Exempt(enum_name, s) == enum_name = "PixelFormat" /\ contains_digit(s)

\* the IVEC adjustment left out
LowerRange_NoIvec(s) ==
    [i |-> 1, j |-> IF ends_with(s, "2D") THEN Len(s) - 1 ELSE Len(s)]

\* the 2D adjustment takes both bytes of the suffix off the range
LowerRange_Without2D(s) ==
    [i |-> IF starts_with(s, "IVEC") THEN 1 + 1 ELSE 1,
     j |-> IF ends_with(s, "2D") THEN Len(s) - 2 ELSE Len(s)]

\* api.rs 173-181: the byte range [i, j) that is lower-cased
LowerRange(s) ==
    [i |-> IF starts_with(s, "IVEC") THEN 1 + 1 ELSE 1,
     j |-> IF ends_with(s, "2D") THEN Len(s) - 1 ELSE Len(s)]

\* every part cut down to its first byte
FormatPart_FirstByte(enum_name, s) == Slice(s, 0, IF Len(s) > 1 THEN 1 ELSE Len(s))

\* api.rs 167-187: the closure mapped over the parts
FormatPart(enum_name, s) ==
    IF Len(s) > 1 /\ ~Exempt(enum_name, s)
    THEN LET r == LowerRange(s)
         IN  Slice(s, 0, r.i) \o make_ascii_lowercase(Slice(s, r.i, r.j))
                 \o Slice(s, r.j, Len(s))
    ELSE s

\* api.rs 162-189
format_value_name(enum_name, raw) ==
    LET parts == skip(split(raw), prefix_count(enum_name))
    IN  collect([k \in 1..Len(parts) |-> FormatPart(enum_name, parts[k])])

\* api.rs 183: s[i..j] is a fatal error unless i <= j <= s.len() (in an ASCII
\* string every index is a character boundary)
InRange(s, r) == r.i <= r.j /\ r.j <= Len(s)

\* api.rs 167-187: the closure panics on one of the parts
Panics(enum_name, raw) ==
    LET parts == skip(split(raw), prefix_count(enum_name))
    IN  \E k \in 1..Len(parts) :
            /\ Len(parts[k]) > 1
            /\ ~Exempt(enum_name, parts[k])
            /\ ~InRange(parts[k], LowerRange(parts[k]))

---------------------------------------------------------------------------
(* The run of format_value_name on one enum name and one raw value name    *)

SkipTwoNames ==
    {"CubemapLayout", "GamepadAxis", "GamepadButton", "MaterialMapIndex",
     "MouseButton", "MouseCursor", "PixelFormat", "ShaderAttributeDataType",
     "ShaderLocationIndex", "ShaderUniformDataType", "TextureFilter",
     "TextureWrap"}

EnumNames == SkipTwoNames \cup {"CameraMode", "PixelFormats"}

Words ==
    {"", "A", "IVEC2", "SAMPLER2D", "R8G8B8A8", "2D", "PIXELFORMAT",
     "UNCOMPRESSED"}

RECURSIVE SeqsOfLen(_, _)
SeqsOfLen(S, n) ==
    IF n = 0 THEN {<<>>}
    ELSE {Append(q, x) : q \in SeqsOfLen(S, n - 1), x \in S}

SeqsUpTo(S, n) == UNION {SeqsOfLen(S, k) : k \in 0..n}

\* the raw name written with the given words, '_' between them
RECURSIVE Join(_)
Join(parts) ==
    IF Len(parts) = 0 THEN ""
    ELSE IF Len(parts) = 1 THEN parts[1]
    ELSE parts[1] \o "_" \o Join(Tail(parts))

TypeIdle ==
    /\ data_type = ""
    /\ type_result = NoResult

InitName ==
    /\ pc = "format_value_name"
    /\ name \in EnumNames
    /\ raw_parts \in SeqsUpTo(Words, MaxParts)
    /\ value_name = Join(raw_parts)
    /\ name_result = ""
    /\ values = <<>>
    /\ idx = 0
    /\ seen = {}
    /\ code = <<>>
    /\ TypeIdle
    /\ OtherIdle

FormatValueName ==
    /\ pc = "format_value_name"
    /\ IF Panics(name, value_name)
       THEN /\ pc' = "name_panicked"
            /\ UNCHANGED name_result
       ELSE /\ name_result' = format_value_name(name, value_name)
            /\ pc' = "name_done"
    /\ UNCHANGED <<data_type, type_result, name, raw_parts, value_name,
                   values, idx, seen, code, otherVars>>

NextName == FormatValueName

SpecName == InitName /\ [][NextName]_vars

\* the segments at the edges of the range arithmetic: the empty one, one
\* byte, exactly "2D", exactly "IVEC", both adjustments at once, a digit
Segments == {"", "A", "2D", "IVEC", "IVEC2D", "R8"}

SegmentEnums == {"PixelFormat", "ShaderUniformDataType", "CameraMode"}

InitSegments ==
    /\ pc = "format_value_name"
    /\ name \in SegmentEnums
    /\ raw_parts \in SeqsUpTo(Segments, MaxParts)
    /\ value_name = Join(raw_parts)
    /\ name_result = ""
    /\ values = <<>>
    /\ idx = 0
    /\ seen = {}
    /\ code = <<>>
    /\ TypeIdle
    /\ OtherIdle

SpecSegments == InitSegments /\ [][NextName]_vars

---------------------------------------------------------------------------
(* Properties of format_value_name                                         *)

NameDone == pc = "name_done"

\* the words of the raw name that remain after the first k
Remaining(k) == [p \in 1..(IF Len(raw_parts) > k THEN Len(raw_parts) - k ELSE 0)
                    |-> raw_parts[p + k]]

\* the identifier made of f(word) for every remaining word, in order
Identifier(parts, f(_)) == collect([p \in 1..Len(parts) |-> f(parts[p])])

DocumentedSkip ==
    IF name \in {"CubemapLayout", "GamepadAxis", "GamepadButton",
                 "MaterialMapIndex", "MouseButton", "MouseCursor", "PixelFormat",
                 "ShaderAttributeDataType", "ShaderLocationIndex",
                 "ShaderUniformDataType", "TextureFilter", "TextureWrap"}
    THEN 2
    ELSE 1

IsDigitExempt(w) == name = "PixelFormat" /\ contains_digit(w)

IsSpecialCase(w) ==
    starts_with(w, "IVEC") \/ ends_with(w, "2D") \/ IsDigitExempt(w)

\* first character kept, all the others lower-cased; one character unchanged
Capitalized(w) ==
    IF Len(w) <= 1 THEN w ELSE Head(w) \o make_ascii_lowercase(Tail(w))

\* C8: the raw name is split at '_', the first k words dropped (k = 2 for the
\* twelve listed enums, 1 otherwise), and every remaining word outside the
\* special cases is capitalized; the words are concatenated without separator.
C8_SkipAndCapitalize ==
    LET rest == Remaining(DocumentedSkip)
    IN  (NameDone /\ \A p \in 1..Len(rest) : ~IsSpecialCase(rest[p]))
            => name_result = Identifier(rest, Capitalized)

C8_Witness ==
    /\ NameDone
    /\ name = "MouseCursor"
    /\ value_name = "PIXELFORMAT_A_UNCOMPRESSED"
    /\ name_result = "Uncompressed"

\* the character at position p of the word w as the general rule leaves it:
\* unchanged at position 1, at position 2 of a word starting with IVEC and at
\* the last position of a word ending with 2D, lower-cased elsewhere
GeneralChar(w, p) ==
    IF \/ p = 1
       \/ p = 2 /\ starts_with(w, "IVEC")
       \/ p = Len(w) /\ ends_with(w, "2D")
    THEN CharAt(w, p)
    ELSE to_ascii_lowercase(CharAt(w, p))

General(w) == collect([p \in 1..Len(w) |-> GeneralChar(w, p)])

DigitVerbatim(w) == IF contains_digit(w) THEN w ELSE General(w)

\* C9: in PixelFormat a word with an ASCII digit is emitted verbatim and the
\* words without a digit follow the general rule; in every other enum a word
\* with a digit follows the general rule like any other word.
C9_PixelFormatDigits ==
    LET rest == Remaining(prefix_count(name))
    IN  /\ (NameDone /\ name = "PixelFormat")
                => name_result = Identifier(rest, DigitVerbatim)
        /\ (NameDone /\ name # "PixelFormat")
                => name_result = Identifier(rest, General)
        /\ (NameDone /\ name = "PixelFormat"
                /\ value_name = "PIXELFORMAT_UNCOMPRESSED_R8G8B8A8")
                => name_result = "R8G8B8A8"

C9_Witness ==
    /\ NameDone
    /\ name = "PixelFormat"
    /\ value_name = "PIXELFORMAT_UNCOMPRESSED_R8G8B8A8"
    /\ name_result = "R8G8B8A8"

\* a lower-cased word: lower-casing starts at index 2 instead of 1 when it
\* starts with IVEC and stops one character before the end when it ends with 2D
RangeLowered(w) ==
    LET from == IF starts_with(w, "IVEC") THEN 2 ELSE 1
        to == IF ends_with(w, "2D") THEN Len(w) - 1 ELSE Len(w)
    IN  IF Len(w) <= 1 THEN w
        ELSE SubSeq(w, 1, from) \o make_ascii_lowercase(SubSeq(w, from + 1, to))
                \o SubSeq(w, to + 1, Len(w))

\* C10: a lower-cased word starting with IVEC keeps its first two characters
\* and one ending with 2D keeps its last character: IVEC2 gives IVec2 and
\* SAMPLER2D gives Sampler2D.
C10_IvecAnd2D ==
    LET rest == Remaining(prefix_count(name))
    IN  /\ (/\ NameDone
            /\ \A p \in 1..Len(rest) : ~IsDigitExempt(rest[p])
            /\ \E p \in 1..Len(rest) :
                    starts_with(rest[p], "IVEC") \/ ends_with(rest[p], "2D"))
                => name_result = Identifier(rest, RangeLowered)
        /\ (NameDone /\ name = "CameraMode" /\ value_name = "A_IVEC2")
                => name_result = "IVec2"
        /\ (NameDone /\ name = "CameraMode" /\ value_name = "A_SAMPLER2D")
                => name_result = "Sampler2D"

C10_Witness ==
    /\ NameDone
    /\ name = "CameraMode"
    /\ value_name = "A_IVEC2_SAMPLER2D"
    /\ name_result = "IVec2Sampler2D"

---------------------------------------------------------------------------
(* Enum::generate_code and Enum::generate_bitflags                         *)

\* the allow-list with one name missing
is_bitflags_ConfigFlagsOnly(enum_name) == enum_name = "ConfigFlags"

\* api.rs 158-160
is_bitflags(enum_name) == enum_name \in {"ConfigFlags", "Gesture"}

\* !x on a u32
Not32(v) == [hi |-> Half - 1 - v.hi, lo |-> Half - 1 - v.lo]

\* one item pushed to `code`: the attribute lines, an opening line, a
\* discriminant, a bit constant or a closing line
Item(kind, id, value) == [kind |-> kind, id |-> id, value |-> value]

Line(kind, id) == Item(kind, id, U32(0))

\* the set keyed by the value's name
DedupKey_ByName(v) == v.name

\* api.rs 210-211: the key the FnvHashSet holds
DedupKey(v) == v.value

\* api.rs 236-240
BitflagName(enum_name, raw) ==
    collect(skip(split_inclusive(raw), prefix_count(enum_name)))

\* the catch-all constant written with no bit set
CatchAll_Zero == Item("const", "_", U32(0))

\* api.rs 244: const _ = !0;
CatchAll == Item("const", "_", Not32(U32(0)))

---------------------------------------------------------------------------
(* The run of generate_code on one enum                                    *)

EmitNames == {"ConfigFlags", "Gesture", "Gestures", "PixelFormat", "CameraMode"}

RawNames == {"FOO_A", "FOO_B", "FLAG_VSYNC_HINT"}

Codes == {U32(0), U32(3), [hi |-> Half \div 2, lo |-> 0]}

EnumValues == {[name |-> n, value |-> c] : n \in RawNames, c \in Codes}

InitEnum ==
    /\ pc = "generate_code"
    /\ name \in EmitNames
    /\ values \in SeqsUpTo(EnumValues, MaxValues)
    /\ idx = 0
    /\ seen = {}
    /\ code = <<>>
    /\ raw_parts = <<>>
    /\ value_name = ""
    /\ name_result = ""
    /\ TypeIdle
    /\ OtherIdle

EnumFrame == <<data_type, type_result, name, raw_parts, value_name,
               name_result, values, otherVars>>

\* api.rs 192-205 and 227-231: the attributes, then the opening of either shape
GenerateCode ==
    /\ pc = "generate_code"
    /\ IF is_bitflags(name)
       THEN /\ code' = code \o <<Line("attrs", ""), Line("struct", name),
                                 Line("bitflags_open", name)>>
            /\ pc' = "bitflags_loop"
       ELSE /\ code' = code \o <<Line("attrs", ""), Line("enum_open", name)>>
            /\ pc' = "enum_loop"
    /\ idx' = 1
    /\ seen' = {}
    /\ UNCHANGED EnumFrame

\* api.rs 209-221: one iteration of the loop of generate_code
EnumLoop ==
    /\ pc = "enum_loop"
    /\ idx <= Len(values)
    /\ LET value == values[idx]
       IN  IF DedupKey(value) \notin seen
           THEN /\ seen' = seen \cup {DedupKey(value)}
                /\ code' = Append(code, Item("variant",
                                format_value_name(name, value.name), value.value))
           ELSE UNCHANGED <<seen, code>>
    /\ idx' = idx + 1
    /\ UNCHANGED <<pc, EnumFrame>>

\* api.rs 223
EnumClose ==
    /\ pc = "enum_loop"
    /\ idx > Len(values)
    /\ code' = Append(code, Line("close", ""))
    /\ pc' = "enum_done"
    /\ UNCHANGED <<idx, seen, EnumFrame>>

\* api.rs 233-243: one iteration of the loop of generate_bitflags
BitflagsLoop ==
    /\ pc = "bitflags_loop"
    /\ idx <= Len(values)
    /\ LET value == values[idx]
       IN  code' = Append(code, Item("const", BitflagName(name, value.name),
                                     value.value))
    /\ idx' = idx + 1
    /\ UNCHANGED <<pc, seen, EnumFrame>>

\* api.rs 244-246
BitflagsClose ==
    /\ pc = "bitflags_loop"
    /\ idx > Len(values)
    /\ code' = code \o <<CatchAll, Line("close", "")>>
    /\ pc' = "enum_done"
    /\ UNCHANGED <<idx, seen, EnumFrame>>

NextEnum ==
    \/ GenerateCode
    \/ EnumLoop
    \/ EnumClose
    \/ BitflagsLoop
    \/ BitflagsClose

SpecEnum == InitEnum /\ [][NextEnum]_vars

---------------------------------------------------------------------------
(* Properties of the enum emitter                                          *)

EnumDone == pc = "enum_done"

EmittedAsBitflags == Len(code) >= 3 /\ code[2].kind = "struct"

EmittedAsPlainEnum == Len(code) >= 2 /\ code[2].kind = "enum_open"

IsVariant(item) == item.kind = "variant"

IsConst(item) == item.kind = "const"

Variants == SelectSeq(code, IsVariant)

Consts == SelectSeq(code, IsConst)

\* the value at index i is the first of the input with its numeric code
FirstOfItsCode(i) == \A j \in 1..(i - 1) : values[j].value # values[i].value

\* the discriminants expected for the first n values of the input
RECURSIVE FirstSeen(_)
FirstSeen(n) ==
    IF n = 0 THEN <<>>
    ELSE IF FirstOfItsCode(n)
    THEN Append(FirstSeen(n - 1),
                Item("variant", format_value_name(name, values[n].name),
                     values[n].value))
    ELSE FirstSeen(n - 1)

\* C5: a plain enum emits exactly the values whose numeric code has not
\* occurred earlier, in input order (after every iteration of the loop, for
\* the values visited so far): every distinct code once, under the normalized
\* name of the first value that had it.
C5_FirstSeenWins ==
    /\ pc = "enum_loop" => Variants = FirstSeen(idx - 1)
    /\ (EnumDone /\ EmittedAsPlainEnum) =>
        /\ Variants = FirstSeen(Len(values))
        /\ \A i \in 1..Len(values) :
              Cardinality({k \in 1..Len(Variants) :
                              Variants[k].value = values[i].value}) = 1

C5_Witness ==
    /\ EnumDone
    /\ name = "CameraMode"
    /\ values = <<[name |-> "FOO_A", value |-> U32(3)],
                  [name |-> "FOO_B", value |-> U32(3)]>>
    /\ Variants = <<Item("variant", "A", U32(3))>>

RECURSIVE BitOr16(_, _)
BitOr16(a, b) ==
    IF a = 0 THEN b
    ELSE IF b = 0 THEN a
    ELSE (IF a % 2 = 1 \/ b % 2 = 1 THEN 1 ELSE 0)
            + 2 * BitOr16(a \div 2, b \div 2)

BitOr32(v, w) == [hi |-> BitOr16(v.hi, w.hi), lo |-> BitOr16(v.lo, w.lo)]

RECURSIVE OrOfValues(_)
OrOfValues(items) ==
    IF Len(items) = 0 THEN U32(0)
    ELSE BitOr32(Head(items).value, OrOfValues(Tail(items)))

\* C6: for every enum emitted as bitflags, the bitwise OR of all the emitted
\* constants, the catch-all included, is 2^32 - 1.
C6_AllBitsCovered ==
    (EnumDone /\ EmittedAsBitflags) => OrOfValues(Consts) = U32Max

C6_Witness ==
    /\ EnumDone
    /\ EmittedAsBitflags
    /\ values = <<[name |-> "FLAG_VSYNC_HINT", value |-> U32(3)]>>
    /\ Consts = <<Item("const", "VSYNC_HINT", U32(3)), Item("const", "_", U32Max)>>
    /\ OrOfValues(Consts) = U32Max

\* the named constants: all the constants but the trailing catch-all
NamedConsts == SubSeq(Consts, 1, Len(Consts) - 1)

\* C7: the bitflag shape is emitted exactly for ConfigFlags and Gesture, with
\* one named constant per value, in input order, value unchanged, duplicates
\* of a numeric code kept; every other enum is a plain discriminant enum.
C7_BitflagShape ==
    EnumDone =>
        /\ EmittedAsBitflags <=> name \in {"ConfigFlags", "Gesture"}
        /\ EmittedAsPlainEnum <=> name \notin {"ConfigFlags", "Gesture"}
        /\ EmittedAsBitflags =>
            /\ Len(NamedConsts) = Len(values)
            /\ \A i \in 1..Len(values) : NamedConsts[i].value = values[i].value
            /\ Variants = <<>>
        /\ EmittedAsPlainEnum => Consts = <<>>

C7_Witness ==
    /\ EnumDone
    /\ name = "Gesture"
    /\ values = <<[name |-> "FOO_A", value |-> U32(3)],
                  [name |-> "FLAG_VSYNC_HINT", value |-> U32(3)]>>
    /\ NamedConsts = <<Item("const", "A", U32(3)),
                       Item("const", "VSYNC_HINT", U32(3))>>

---------------------------------------------------------------------------
(* Struct::generate_code and the three Function emitters                   *)

\* what a run of push_str calls leaves: the pushed strings in order, or a
\* panic when one of the strings could not be formatted
Text(piece) == [panic |-> FALSE, text |-> piece]

Typed(prefix, type_string, suffix) ==
    LET t == format_type(type_string)
    IN  [panic |-> t.panic, text |-> prefix \o t.out \o suffix]

Pushed(results) ==
    IF \E k \in 1..Len(results) : results[k].panic
    THEN [panic |-> TRUE, pieces |-> <<>>]
    ELSE [panic |-> FALSE, pieces |-> [k \in 1..Len(results) |-> results[k].text]]

RECURSIVE Flatten(_)
Flatten(lists) ==
    IF Len(lists) = 0 THEN <<>> ELSE Head(lists) \o Flatten(Tail(lists))

\* api.rs 52-57
FieldLines(field) ==
    <<Text("\t/// " \o field.description \o "\n"),
      Typed("\tpub " \o field.name \o ": ", field.data_type, ",\n")>>

\* the fields written last to first
StructFields_Reversed(fields) ==
    Flatten([k \in 1..Len(fields) |-> FieldLines(fields[Len(fields) + 1 - k])])

\* api.rs 51-58
StructFields(fields) ==
    Flatten([k \in 1..Len(fields) |-> FieldLines(fields[k])])

\* api.rs 43-61
Struct_generate_code(struc) ==
    Pushed(<<Text("\n"), Text("/// " \o struc.description \o "\n"),
             Text("#[repr(C)]\n"), Text("#[derive(Clone, Debug)]\n"),
             Text("pub struct " \o struc.name \o " {\n")>>
           \o StructFields(struc.fields)
           \o <<Text("}\n")>>)

\* only `type` is escaped
ParamName_TypeOnly(param) ==
    IF param.name = "type" THEN "r#type" ELSE param.name

\* api.rs 293-299
ParamName(param) ==
    IF param.name = "type" THEN "r#type"
    ELSE IF param.name = "box" THEN "r#box"
    ELSE param.name

\* the variadic test left out
ParamPiece_NoVariadic(param) ==
    Typed(ParamName(param) \o ": ", param.data_type, ", ")

\* api.rs 301-309
ParamPiece(param) ==
    IF param.data_type = "..."
    THEN Text("..., ")
    ELSE Typed(ParamName(param) \o ": ", param.data_type, ", ")

\* api.rs 314-316
ReturnPiece(func) ==
    IF func.return_type # "void"
    THEN <<Typed(" -> ", func.return_type, "")>>
    ELSE <<>>

\* api.rs 289-317
generate_code_common(func) ==
    <<Text("(")>>
        \o [k \in 1..Len(func.params) |-> ParamPiece(func.params[k])]
        \o <<Text(")")>>
        \o ReturnPiece(func)

\* api.rs 268-278
generate_code_as_callback(func) ==
    Pushed(<<Text("/// " \o func.description \o "\n"),
             Text("pub type " \o func.name \o " = Option<unsafe extern \"C\" fn")>>
           \o generate_code_common(func)
           \o <<Text(">;\n")>>)

\* api.rs 280-287
generate_code_as_function(func) ==
    Pushed(<<Text("\t/// " \o func.description \o "\n"),
             Text("\tpub fn " \o func.name)>>
           \o generate_code_common(func)
           \o <<Text(";\n")>>)

---------------------------------------------------------------------------
(* The run of one emitter on one struct, callback or function              *)

Ident(id, type_string) == [data_type |-> type_string, name |-> id, description |-> ""]

IdentPool ==
    {Ident("type", "int"), Ident("box", "BoundingBox"), Ident("width", "float"),
     Ident("args", "..."), Ident("type", "..."), Ident("fileName", "const char *"),
     Ident("m", "float[4]"), Ident("bad", "float[")}

ReturnTypes == {"void", "int", "const char **"}

Decl(kind, id, return_type, idents) ==
    [name |-> id, kind |-> kind, description |-> "doc",
     return_type |-> return_type, idents |-> idents]

\* a Function of the schema: its parameters are the idents
Function(d) == [name |-> d.name, description |-> d.description,
                return_type |-> d.return_type, params |-> d.idents]

\* a Struct of the schema: its fields are the idents
Struct(d) == [name |-> d.name, description |-> d.description, fields |-> d.idents]

Decls ==
    {Decl(k, "Load", r, ids) :
        k \in {"callback", "function"}, r \in ReturnTypes,
        ids \in SeqsUpTo(IdentPool, MaxIdents)}
    \cup {Decl("struct", "Image", "", ids) : ids \in SeqsUpTo(IdentPool, MaxIdents)}

InitDecl ==
    /\ pc = "generate_decl"
    /\ decl \in Decls
    /\ emit = NoEmit
    /\ api = NoApi
    /\ sections = <<>>
    /\ file = NoFile
    /\ TypeIdle
    /\ EnumIdle
    /\ WrapperIdle

DeclFrame == <<data_type, type_result, name, raw_parts, value_name, name_result,
               values, idx, seen, code, decl, api, sections, file, wrapperVars>>

Finish(e) ==
    /\ emit' = e
    /\ pc' = IF e.panic THEN "panicked" ELSE "decl_done"
    /\ UNCHANGED DeclFrame

GenerateStruct ==
    /\ pc = "generate_decl"
    /\ decl.kind = "struct"
    /\ Finish(Struct_generate_code(Struct(decl)))

GenerateCallback ==
    /\ pc = "generate_decl"
    /\ decl.kind = "callback"
    /\ Finish(generate_code_as_callback(Function(decl)))

GenerateFunction ==
    /\ pc = "generate_decl"
    /\ decl.kind = "function"
    /\ Finish(generate_code_as_function(Function(decl)))

NextDecl ==
    \/ GenerateStruct
    \/ GenerateCallback
    \/ GenerateFunction

SpecDecl == InitDecl /\ [][NextDecl]_vars

---------------------------------------------------------------------------
(* Properties of the struct and function emitters                          *)

DeclDone == pc = "decl_done"

IsSignature == decl.kind \in {"callback", "function"}

\* the pieces between the "(" and the ")" of an emitted signature, which are
\* the third piece and the one after the last parameter
ParamList == SubSeq(emit.pieces, 4, 3 + Len(decl.idents))

\* C12: a parameter whose type string is exactly "..." is emitted as the
\* variadic marker at its position of the parameter list, without its name and
\* without a formatted type, in a callback alias and in an extern function.
C12_VariadicMarker ==
    (DeclDone /\ IsSignature) =>
        /\ emit.pieces[3] = "("
        /\ emit.pieces[4 + Len(decl.idents)] = ")"
        /\ \A k \in 1..Len(decl.idents) :
              decl.idents[k].data_type = "..." => ParamList[k] = "..., "

C12_Witness ==
    /\ DeclDone
    /\ decl.kind = "callback"
    /\ decl.idents = <<Ident("fileName", "const char *"), Ident("args", "...")>>
    /\ ParamList = <<"fileName: *const core::ffi::c_char, ", "..., ">>

IsFieldLine(piece) == starts_with(piece, "\tpub ")

FieldLinesEmitted == SelectSeq(emit.pieces, IsFieldLine)

\* C14: the emitted record lists exactly the fields of the struct, once each,
\* in the order of the input.
C14_FieldOrder ==
    (DeclDone /\ decl.kind = "struct") =>
        /\ Len(FieldLinesEmitted) = Len(decl.idents)
        /\ \A k \in 1..Len(decl.idents) :
              /\ starts_with(FieldLinesEmitted[k],
                             "\tpub " \o decl.idents[k].name \o ": ")
              /\ ends_with(FieldLinesEmitted[k], ",\n")

C14_Witness ==
    /\ DeclDone
    /\ decl.kind = "struct"
    /\ decl.idents = <<Ident("width", "float"), Ident("type", "int"),
                       Ident("m", "float[4]")>>
    /\ FieldLinesEmitted = <<"\tpub width: core::ffi::c_float,\n",
                             "\tpub type: core::ffi::c_int,\n",
                             "\tpub m: [core::ffi::c_float; 4],\n">>

---------------------------------------------------------------------------
(* Definition::generate_code, the enum emitters as text, Api::generate_code *)

\* a serde_json::Value: as_u64 is Some for a non-negative integer only and
\* as_str for a string only; the integers of the model are below 2^31
JsonU64(n) == [json |-> "u64", num |-> n, str |-> ""]
JsonF64(text) == [json |-> "f64", num |-> 0, str |-> text]
JsonStr(text) == [json |-> "string", num |-> 0, str |-> text]

\* an unknown kind written as a comment line
DefinePieces_CommentUnknown(define) ==
    <<Text("// " \o define.name \o "\n")>>

\* api.rs 15-31: what the three arms of the match push
DefinePieces(define) ==
    CASE define.kind = "INT" ->
            <<[panic |-> define.value.json # "u64",
               text |-> "pub const " \o define.name \o ": u32 = "
                            \o FormatU32(U32(define.value.num)) \o ";\n"]>>
      [] define.kind = "STRING" ->
            <<[panic |-> define.value.json # "string",
               text |-> "pub const " \o define.name \o ": &str = \""
                            \o define.value.str \o "\";\n"]>>
      [] OTHER -> <<>>

\* api.rs 14-32
Definition_generate_code(define) == Pushed(DefinePieces(define))

\* api.rs 391-397
Alias_generate_code(alias) ==
    Pushed(<<Text("\n"), Text("/// " \o alias.description \o "\n"),
             Typed("pub type " \o alias.name \o " = ", alias.data_type, ";\n")>>)

\* api.rs 209-221 as text: the lines of the values from index k on, `keys`
\* being the set built so far
RECURSIVE VariantLines(_, _, _)
VariantLines(enum, k, keys) ==
    IF k > Len(enum.values) THEN <<>>
    ELSE LET value == enum.values[k]
         IN  IF DedupKey(value) \notin keys
             THEN <<Text("\t/// " \o value.description \o "\n"),
                    Text("\t" \o format_value_name(enum.name, value.name) \o " = "
                            \o FormatU32(value.value) \o ",\n")>>
                    \o VariantLines(enum, k + 1, keys \cup {DedupKey(value)})
             ELSE VariantLines(enum, k + 1, keys)

\* api.rs 233-243 as text
ConstLines(enum) ==
    Flatten([k \in 1..Len(enum.values) |->
        <<Text("\t\t/// " \o enum.values[k].description \o "\n"),
          Text("\t\tconst " \o BitflagName(enum.name, enum.values[k].name) \o " = "
                  \o FormatU32(enum.values[k].value) \o ";\n")>>])

\* api.rs 191-247
Enum_generate_code(enum) ==
    Pushed(<<Text("\n"), Text("/// " \o enum.description \o "\n"),
             Text("#[repr(C)]\n"),
             Text("#[derive(Clone, Copy, Debug, PartialEq, Eq, Hash)]\n"),
             Text("#[cfg_attr(feature = \"serde\", derive(serde::Serialize, serde::Deserialize))]\n")>>
           \o (IF is_bitflags(enum.name)
               THEN <<Text("pub struct " \o enum.name \o "(u32);\n\n"),
                      Text("bitflags::bitflags! {\n\timpl " \o enum.name \o ": u32 {\n")>>
                    \o ConstLines(enum)
                    \o <<Text("\n\t\tconst _ = !0;\n"), Text("\t}\n}\n")>>
               ELSE <<Text("pub enum " \o enum.name \o " {\n")>>
                    \o VariantLines(enum, 1, {})
                    \o <<Text("}\n")>>))

\* api.rs 320-347
COLORS ==
    <<<<"LIGHTGRAY", 200, 200, 200, 255>>, <<"GRAY", 130, 130, 130, 255>>,
      <<"DARKGRAY", 80, 80, 80, 255>>, <<"YELLOW", 253, 249, 0, 255>>,
      <<"GOLD", 255, 203, 0, 255>>, <<"ORANGE", 255, 161, 0, 255>>,
      <<"PINK", 255, 109, 194, 255>>, <<"RED", 230, 41, 55, 255>>,
      <<"MAROON", 190, 33, 55, 255>>, <<"GREEN", 0, 228, 48, 255>>,
      <<"LIME", 0, 158, 47, 255>>, <<"DARKGREEN", 0, 117, 44, 255>>,
      <<"SKYBLUE", 102, 191, 255, 255>>, <<"BLUE", 0, 121, 241, 255>>,
      <<"DARKBLUE", 0, 82, 172, 255>>, <<"PURPLE", 200, 122, 255, 255>>,
      <<"VIOLET", 135, 60, 190, 255>>, <<"DARKPURPLE", 112, 31, 126, 255>>,
      <<"BEIGE", 211, 176, 131, 255>>, <<"BROWN", 127, 106, 79, 255>>,
      <<"DARKBROWN", 76, 63, 47, 255>>, <<"WHITE", 255, 255, 255, 255>>,
      <<"BLACK", 0, 0, 0, 255>>, <<"BLANK", 0, 0, 0, 0>>,
      <<"MAGENTA", 255, 0, 255, 255>>, <<"RAYWHITE", 245, 245, 245, 255>>>>

\* the red and the blue component change places
ColorLine_Bgr(color) ==
    "\tpub const " \o color[1] \o ": super::Color = super::Color { r: "
        \o FormatU32(U32(color[4])) \o ", g: " \o FormatU32(U32(color[3]))
        \o ", b: " \o FormatU32(U32(color[2])) \o ", a: "
        \o FormatU32(U32(color[5])) \o " };\n"

\* api.rs 375-378
ColorLine(color) ==
    "\tpub const " \o color[1] \o ": super::Color = super::Color { r: "
        \o FormatU32(U32(color[2])) \o ", g: " \o FormatU32(U32(color[3]))
        \o ", b: " \o FormatU32(U32(color[4])) \o ", a: "
        \o FormatU32(U32(color[5])) \o " };\n"

\* api.rs 364-380
Prelude ==
    <<"pub const MAX_SHADER_LOCATIONS: usize = 32;\n",
      "pub const MAX_MATERIAL_MAPS: usize = 12;\n\n",
      "#[repr(C)]\npub struct rAudioBuffer { _empty: core::marker::PhantomData<()> }\n",
      "#[repr(C)]\npub struct rAudioProcessor { _empty: core::marker::PhantomData<()> }\n\n",
      "pub mod colors {\n">>
    \o [k \in 1..Len(COLORS) |-> ColorLine(COLORS[k])]
    \o <<"}\n\n">>

\* what one loop of Api::generate_code pushes: one entry per item, in the
\* order the loop visits them, `results` being what each item's run pushed
Section(tag, results) ==
    [k \in 1..Len(results) |->
        [panic |-> results[k].panic, pieces |-> results[k].pieces, tag |-> tag]]

\* api.rs 382-384
DefinesCode(defines) ==
    [k \in 1..Len(defines) |-> Definition_generate_code(defines[k])]

\* api.rs 386-388
StructsCode(structs) ==
    [k \in 1..Len(structs) |-> Struct_generate_code(structs[k])]

\* api.rs 390-398
AliasesCode(aliases) ==
    [k \in 1..Len(aliases) |-> Alias_generate_code(aliases[k])]

\* api.rs 400-402
EnumsCode(enums) == [k \in 1..Len(enums) |-> Enum_generate_code(enums[k])]

\* api.rs 404-406
CallbacksCode(callbacks) ==
    [k \in 1..Len(callbacks) |-> generate_code_as_callback(callbacks[k])]

\* api.rs 410-412
FunctionsCode(functions) ==
    [k \in 1..Len(functions) |-> generate_code_as_function(functions[k])]

Fixed(tag, pieces) == <<[panic |-> FALSE, pieces |-> pieces, tag |-> tag]>>

AnyPanic(entries) == \E k \in 1..Len(entries) : entries[k].panic

\* the text of `code`: every piece pushed so far, in order
CodePieces(entries) == Flatten([k \in 1..Len(entries) |-> entries[k].pieces])

---------------------------------------------------------------------------
(* The run of main on one deserialized Api                                 *)

Definition(id, kind, value) ==
    [name |-> id, kind |-> kind, value |-> value, description |-> "doc"]

DefinePool ==
    {Definition("RAYLIB_VERSION_MAJOR", "INT", JsonU64(4)),
     Definition("type", "STRING", JsonStr("4.5")),
     Definition("box", "FLOAT", JsonF64("3.14159")),
     Definition("DEG2RAD", "INT", JsonF64("0.017"))}

Alias(id, type_string) ==
    [data_type |-> type_string, name |-> id, description |-> "doc"]

EnumValue(id, value) == [name |-> id, value |-> U32(value), description |-> "doc"]

Enum(id, enum_values) == [name |-> id, values |-> enum_values, description |-> "doc"]

Callable(id, return_type, params) ==
    [name |-> id, description |-> "doc", return_type |-> return_type,
     params |-> params]

StructLists ==
    {<<>>,
     <<Struct(Decl("struct", "Vector2", "", <<Ident("x", "float"), Ident("type", "int")>>)),
       Struct(Decl("struct", "box", "", <<Ident("box", "float[4]")>>))>>,
     <<Struct(Decl("struct", "Image", "", <<Ident("data", "void *"), Ident("bad", "int[x]")>>))>>}

AliasLists ==
    {<<>>,
     <<Alias("type", "Vector4"), Alias("Texture2D", "Texture")>>,
     <<Alias("Quaternion", "Vector4"), Alias("Bad", "float[")>>}

EnumLists ==
    {<<>>,
     <<Enum("type", <<EnumValue("KEY_NULL", 0), EnumValue("KEY_A", 65), EnumValue("KEY_MENU", 65)>>),
       Enum("ConfigFlags", <<EnumValue("FLAG_VSYNC_HINT", 64)>>)>>}

CallbackLists ==
    {<<>>,
     <<Callable("TraceLogCallback", "void",
                <<Ident("logLevel", "int"), Ident("type", "const char *"), Ident("args", "...")>>),
       Callable("box", "unsigned char *", <<Ident("box", "BoundingBox")>>)>>}

FunctionLists ==
    {<<>>,
     <<Callable("type", "int", <<Ident("box", "BoundingBox"), Ident("type", "int")>>),
       Callable("InitWindow", "void", <<Ident("width", "float4]"), Ident("type", "...")>>)>>,
     <<Callable("GetMatrix", "float[", <<>>)>>}

Apis ==
    {[defines |-> d, structs |-> s, aliases |-> a, enums |-> e, callbacks |-> c,
      functions |-> f] :
        d \in SeqsUpTo(DefinePool, MaxDefines), s \in StructLists, a \in AliasLists,
        e \in EnumLists, c \in CallbackLists, f \in FunctionLists}

\* main.rs 57: the Api that serde_json::from_str returned
InitApi ==
    /\ pc = "generate_api"
    /\ api \in Apis
    /\ sections = <<>>
    /\ file = NoFile
    /\ decl = <<>>
    /\ emit = NoEmit
    /\ TypeIdle
    /\ EnumIdle
    /\ WrapperIdle

ApiFrame == <<data_type, type_result, name, raw_parts, value_name, name_result,
              values, idx, seen, code, decl, emit, api, wrapperVars>>

\* a failed unwrap skipped over: the part pushes what it has and goes on
Step_Recover(from, to, entries) ==
    /\ pc = from
    /\ pc' = to
    /\ sections' = sections \o entries
    /\ UNCHANGED <<ApiFrame, file>>

\* a part of Api::generate_code that pushes `entries`: an unwrap that fails
\* unwinds out of main and `code` is dropped
Step(from, to, entries) ==
    /\ pc = from
    /\ IF AnyPanic(entries)
       THEN /\ pc' = "panicked"
            /\ sections' = <<>>
       ELSE /\ pc' = to
            /\ sections' = sections \o entries
    /\ UNCHANGED <<ApiFrame, file>>

\* api.rs 361-380
GeneratePrelude == Step("generate_api", "defines", Fixed("prelude", Prelude))

\* api.rs 382-384
GenerateDefines ==
    Step("defines", "structs", Section("defines", DefinesCode(api.defines)))

\* the loop over the aliases run in the place of the loop over the structs
GenerateStructs_AliasesFirst ==
    Step("structs", "aliases", Section("aliases", AliasesCode(api.aliases)))

\* api.rs 386-388
GenerateStructs ==
    Step("structs", "aliases", Section("structs", StructsCode(api.structs)))

\* api.rs 390-398
GenerateAliases ==
    Step("aliases", "enums", Section("aliases", AliasesCode(api.aliases)))

\* api.rs 400-402
GenerateEnums ==
    Step("enums", "callbacks", Section("enums", EnumsCode(api.enums)))

\* api.rs 404-406
GenerateCallbacks ==
    Step("callbacks", "functions",
         Section("callbacks", CallbacksCode(api.callbacks)))

\* api.rs 408-416
GenerateFunctions ==
    Step("functions", "generated",
         Fixed("extern_open", <<"\nextern \"C\" {\n">>)
         \o Section("functions", FunctionsCode(api.functions))
         \o Fixed("extern_close", <<"}\n">>))

\* main.rs 62-63: fs::write returned Ok
WriteFile ==
    /\ pc = "generated"
    /\ file' = [pieces |-> CodePieces(sections), written |-> TRUE]
    /\ pc' = "written"
    /\ UNCHANGED <<ApiFrame, sections>>

\* main.rs 63: fs::write returned Err and expect panics
WriteFails ==
    /\ pc = "generated"
    /\ pc' = "panicked"
    /\ UNCHANGED <<ApiFrame, sections, file>>

NextApi ==
    \/ GeneratePrelude
    \/ GenerateDefines
    \/ GenerateStructs
    \/ GenerateAliases
    \/ GenerateEnums
    \/ GenerateCallbacks
    \/ GenerateFunctions
    \/ WriteFile
    \/ WriteFails

SpecApi == InitApi /\ [][NextApi]_vars

ApiWritten == pc = "written" /\ api # NoApi

Generated == pc \in {"generated", "written"}

\* what the loop over one collection pushed, one entry per item
Entries(tag) == SelectSeq(sections, LAMBDA entry : entry.tag = tag)

\* the documented spelling of a parameter name
Escaped(id) ==
    IF id = "type" THEN "r#type" ELSE IF id = "box" THEN "r#box" ELSE id

\* the pieces of the parameters of signature k of a section follow its "("
ParamsEscaped(tag, funcs) ==
    \A k \in 1..Len(funcs) : \A j \in 1..Len(funcs[k].params) :
        funcs[k].params[j].data_type # "..." =>
            starts_with(Entries(tag)[k].pieces[3 + j],
                        Escaped(funcs[k].params[j].name) \o ": ")

\* piece `at` of item k of a section is `before`, the item's name, `after`
NamesVerbatim(tag, items, at, before, after) ==
    \A k \in 1..Len(items) :
        Entries(tag)[k].pieces # <<>> =>
            starts_with(Entries(tag)[k].pieces[at], before \o items[k].name \o after)

FieldsVerbatim ==
    \A k \in 1..Len(api.structs) : \A j \in 1..Len(api.structs[k].fields) :
        starts_with(Entries("structs")[k].pieces[5 + 2 * j],
                    "\tpub " \o api.structs[k].fields[j].name \o ": ")

EnumOpening(enum) ==
    IF is_bitflags(enum.name) THEN "pub struct " \o enum.name \o "(u32);\n\n"
    ELSE "pub enum " \o enum.name \o " {\n"

\* C13: in an emitted signature a parameter named type is written r#type and
\* one named box r#box; every other parameter name, and every struct field,
\* alias, function, callback, define and enum name, type and box included, is
\* emitted unchanged.
C13_EscapingOnlyInSignatures ==
    Generated =>
        /\ ParamsEscaped("callbacks", api.callbacks)
        /\ ParamsEscaped("functions", api.functions)
        /\ FieldsVerbatim
        /\ NamesVerbatim("structs", api.structs, 5, "pub struct ", " {\n")
        /\ NamesVerbatim("aliases", api.aliases, 3, "pub type ", " = ")
        /\ NamesVerbatim("defines", api.defines, 1, "pub const ", ": ")
        /\ NamesVerbatim("callbacks", api.callbacks, 2, "pub type ", " = Option<")
        /\ NamesVerbatim("functions", api.functions, 2, "\tpub fn ", "")
        /\ \A k \in 1..Len(api.enums) :
              Entries("enums")[k].pieces[6] = EnumOpening(api.enums[k])

C13_Witness ==
    /\ pc = "written"
    /\ Len(api.functions) = 2 /\ api.functions[1].name = "type"
    /\ Len(api.structs) = 2 /\ Len(api.aliases) = 2 /\ Len(api.enums) = 2
    /\ Len(api.callbacks) = 2
    /\ Len(api.defines) > 0 /\ api.defines[1].name = "type"
    /\ Entries("functions")[1].pieces
         = <<"\t/// doc\n", "\tpub fn type", "(", "r#box: BoundingBox, ",
             "r#type: core::ffi::c_int, ", ")", " -> core::ffi::c_int", ";\n">>
    /\ Entries("structs")[1].pieces[9] = "\tpub type: core::ffi::c_int,\n"
    /\ Entries("structs")[2].pieces[5] = "pub struct box {\n"
    /\ Entries("aliases")[1].pieces[3] = "pub type type = Vector4;\n"
    /\ Entries("enums")[1].pieces[6] = "pub enum type {\n"
    /\ Entries("defines")[1].pieces = <<"pub const type: &str = \"4.5\";\n">>
    /\ Entries("callbacks")[1].pieces[5] = "r#type: *const core::ffi::c_char, "

Tags == [k \in 1..Len(sections) |-> sections[k].tag]

Repeat(tag, n) == [k \in 1..n |-> tag]

\* the documented order: the prelude, then one run per collection, as long
\* as the collection, the functions inside the one extern block
DocumentedTags ==
    <<"prelude">>
    \o Repeat("defines", Len(api.defines)) \o Repeat("structs", Len(api.structs))
    \o Repeat("aliases", Len(api.aliases)) \o Repeat("enums", Len(api.enums))
    \o Repeat("callbacks", Len(api.callbacks))
    \o <<"extern_open">> \o Repeat("functions", Len(api.functions))
    \o <<"extern_close">>

\* `part` occurs in `text`
Occurs(text, part) ==
    \E p \in 1..(Len(text) - Len(part) + 1) :
        SubSeq(text, p, p + Len(part) - 1) = part

IsColorLine(piece) ==
    /\ starts_with(piece, "\tpub const ")
    /\ Occurs(piece, ": super::Color = super::Color { r: ")
    /\ ends_with(piece, " };\n")

\* the two size constants, the two placeholder types, the colors module
DocumentedPrelude(pieces) ==
    /\ Len(pieces) = 32
    /\ starts_with(pieces[1], "pub const MAX_SHADER_LOCATIONS: usize = ")
    /\ starts_with(pieces[2], "pub const MAX_MATERIAL_MAPS: usize = ")
    /\ Occurs(pieces[3], "pub struct rAudioBuffer ")
    /\ Occurs(pieces[4], "pub struct rAudioProcessor ")
    /\ pieces[5] = "pub mod colors {\n"
    /\ \A k \in 6..31 : IsColorLine(pieces[k])
    /\ Cardinality({pieces[k] : k \in 6..31}) = 26
    /\ pieces[32] = "}\n\n"

ItemsInInputOrder ==
    /\ NamesVerbatim("defines", api.defines, 1, "pub const ", ": ")
    /\ NamesVerbatim("structs", api.structs, 5, "pub struct ", " {\n")
    /\ NamesVerbatim("aliases", api.aliases, 3, "pub type ", " = ")
    /\ NamesVerbatim("callbacks", api.callbacks, 2, "pub type ", " = Option<")
    /\ NamesVerbatim("functions", api.functions, 2, "\tpub fn ", "")
    /\ \A k \in 1..Len(api.enums) :
          Occurs(Entries("enums")[k].pieces[6], " " \o api.enums[k].name)

\* C15: for every input, the one with six empty collections included, the
\* generated text is the prelude (two size constants, two placeholder types,
\* the colors module with 26 colors), then all defines, structs, aliases,
\* enums and callbacks, then one extern block with all functions, each
\* collection in input order; at no time is anything pushed before the prelude,
\* and the file holds exactly that text.
C15_SectionOrder ==
    /\ sections # <<>> =>
          /\ sections[1].tag = "prelude"
          /\ DocumentedPrelude(sections[1].pieces)
          /\ Tags = SubSeq(DocumentedTags, 1, Len(sections))
    /\ Generated =>
          /\ Tags = DocumentedTags
          /\ ItemsInInputOrder
          /\ Entries("extern_open")[1].pieces = <<"\nextern \"C\" {\n">>
          /\ Entries("extern_close")[1].pieces = <<"}\n">>
    /\ file.written => file.pieces = CodePieces(sections)

EmptyApiWritten ==
    /\ pc = "written"
    /\ api = NoApi
    /\ Tags = <<"prelude", "extern_open", "extern_close">>
    /\ Len(file.pieces) = 34
    /\ file.pieces[33] = "\nextern \"C\" {\n"

C15_Witness ==
    /\ pc = "written"
    /\ Len(api.defines) = 2 /\ Len(api.structs) = 2 /\ Len(api.aliases) = 2
    /\ Len(api.enums) = 2 /\ Len(api.callbacks) = 2 /\ Len(api.functions) = 2
    /\ Len(Tags) = 15

Known(define) == define.kind \in {"INT", "STRING"}

\* the value of a known define has the JSON type its kind reads
WellTyped(define) ==
    /\ define.kind = "INT" => define.value.json = "u64"
    /\ define.kind = "STRING" => define.value.json = "string"

PastDefines == pc \in {"structs", "aliases", "enums", "callbacks", "functions",
                       "generated", "written"}

HasUnknownDefine == \E k \in 1..Len(api.defines) : ~Known(api.defines[k])

\* C16: a Definition whose kind is neither INT nor STRING contributes nothing
\* and does not abort generation: what the loop over the defines pushed is what
\* it pushes for the same defines with those of unknown kind removed, and the
\* loop goes on to the structs whenever the defines of known kind are readable.
C16_UnknownKindIgnored ==
    /\ [](PastDefines =>
            CodePieces(Entries("defines"))
              = CodePieces(Section("defines",
                                   DefinesCode(SelectSeq(api.defines, Known)))))
    /\ [][(pc = "defines" /\ \A k \in 1..Len(api.defines) : WellTyped(api.defines[k]))
            => pc' = "structs"]_vars

C16_Witness ==
    /\ pc = "written"
    /\ Len(api.defines) = 2
    /\ api.defines[1].kind = "FLOAT"
    /\ api.defines[2].kind = "INT"
    /\ Entries("defines")[1].pieces = <<>>
    /\ Entries("defines")[2].pieces = <<"pub const RAYLIB_VERSION_MAJOR: u32 = 4;\n">>

\* the text after the first '[' of a type string
AfterBracket(t) == Slice(t, find(t, "[").pos + 1, Len(t))

\* a text made of decimal digits, at least one
IsIntegerText(t) ==
    /\ Len(t) > 0
    /\ \A p \in 1..Len(t) : is_ascii_digit(CharAt(t, p))

\* the documented malformed array type: a '[' and no pointer suffix, and no
\* following ']' or a non-integer text between the brackets
IsMalformed(type_string) ==
    LET t == IF starts_with(type_string, "const ")
             THEN Slice(type_string, Len("const "), Len(type_string))
             ELSE type_string
    IN  /\ find(t, "[").some
        /\ ~ends_with(t, " *")
        /\ ~ends_with(t, " **")
        /\ \/ ~find(AfterBracket(t), "]").some
           \/ ~IsIntegerText(Slice(AfterBracket(t), 0, find(AfterBracket(t), "]").pos))

\* the type strings format_type is called on: of the fields of the structs,
\* of the aliases, and of the parameters that are not "..." and the return
\* types that are not "void" of a list of signatures
StructTypes ==
    UNION {{api.structs[k].fields[j].data_type : j \in 1..Len(api.structs[k].fields)} :
              k \in 1..Len(api.structs)}

AliasTypes == {api.aliases[k].data_type : k \in 1..Len(api.aliases)}

SignatureTypes(funcs) ==
    UNION {({funcs[k].params[j].data_type : j \in 1..Len(funcs[k].params)} \ {"..."})
              \cup ({funcs[k].return_type} \ {"void"}) :
              k \in 1..Len(funcs)}

ReachedAt(stage) ==
    CASE stage = "structs" -> StructTypes
      [] stage = "aliases" -> AliasTypes
      [] stage = "callbacks" -> SignatureTypes(api.callbacks)
      [] stage = "functions" -> SignatureTypes(api.functions)
      [] OTHER -> {}

ReachedTypes ==
    StructTypes \cup AliasTypes \cup SignatureTypes(api.callbacks)
        \cup SignatureTypes(api.functions)

MalformedAt(stage) == \E t \in ReachedAt(stage) : IsMalformed(t)

\* C17: a malformed array type reached by the generator aborts generation at
\* the loop that reaches it, and raylib_ffi.rs is then never written; the file
\* is written only once the whole text has been generated, and holds all of it.
C17_MalformedArrayAborts ==
    /\ [][MalformedAt(pc) => pc' = "panicked"]_vars
    /\ []((\E t \in ReachedTypes : IsMalformed(t)) => (~Generated /\ file = NoFile))
    /\ [](pc = "panicked" => file = NoFile)
    /\ [](file.written =>
            /\ pc = "written"
            /\ Tags = DocumentedTags
            /\ file.pieces = CodePieces(sections))

\* the run on an Api whose last alias is "float[" has stopped with no file
C17_Witness ==
    /\ pc = "panicked"
    /\ Len(api.aliases) = 2
    /\ api.aliases[2].data_type = "float["
    /\ IsMalformed(api.aliases[2].data_type)
    /\ api.structs = <<>>
    /\ api.defines = <<>>
    /\ file = NoFile

---------------------------------------------------------------------------
(* Texture::update and Texture::update_rect (src/texture.rs)                *)

\* math.rs 106-115: a Rectangle, here the one of a call that takes none
NoRect == [x |-> 0, y |-> 0, width |-> 0, height |-> 0]

\* an f32 is kept as a whole number of halves: 3 is 1.5
\* `x as u32` on an f32: towards zero, and 0 for a negative value
as_u32(halves) == IF halves < 0 THEN 0 ELSE halves \div 2

\* a u32 as an f32
as_f32(n) == 2 * n

\* the native GetPixelDataSize on an uncompressed format: the bytes of
\* width x height pixels
GetPixelDataSize(width, height, format) ==
    CASE format = "UncompressedGrayscale" -> width * height
      [] format = "UncompressedR8g8b8a8" -> width * height * 4

\* texture.rs 17-19
get_pixel_data_size(width, height, format) ==
    GetPixelDataSize(width, height, format)

\* texture.rs 929-931
Texture_get_pixel_data_size(tex) ==
    get_pixel_data_size(tex.width, tex.height, tex.format)

\* texture.rs 911-914: the four tests on the rectangle
RectFits(tex, rect) ==
    /\ rect.x >= 0
    /\ rect.y >= 0
    /\ as_u32(rect.x + rect.width) < tex.width
    /\ as_u32(rect.y + rect.height) < tex.height

\* texture.rs 910: the test on the length of `pixels`
RectSizeFits(tex, rect, len) ==
    len = get_pixel_data_size(as_u32(rect.width), as_u32(rect.height), tex.format)

\* the test on the length left out
SizeFits_Always(tex, len) == TRUE

\* texture.rs 896
SizeFits(tex, len) == len = Texture_get_pixel_data_size(tex)

Formats == {"UncompressedGrayscale", "UncompressedR8g8b8a8"}

Textures ==
    {[width |-> w, height |-> h, format |-> f] :
        w \in 1..MaxSide, h \in 1..MaxSide, f \in Formats}

\* corners at -1, 0, 0.5 and 1; sides from -1 to MaxSide in steps of 0.5
Corners == {-2, 0, 1, 2}

Sides == {-2} \cup (0..as_f32(MaxSide))

Rectangles ==
    {[x |-> x, y |-> y, width |-> w, height |-> h] :
        x \in Corners, y \in Corners, w \in Sides, h \in Sides}

\* lengths of `pixels`: right for the rectangle, right for the texture, and
\* one byte more
Lengths(tex, rect) ==
    {get_pixel_data_size(as_u32(rect.width), as_u32(rect.height), tex.format),
     Texture_get_pixel_data_size(tex),
     Texture_get_pixel_data_size(tex) + 1}

InitTexture ==
    /\ pc = "texture_call"
    /\ texture \in Textures
    /\ \E rect \in Rectangles :
          \/ \E len \in Lengths(texture, rect) :
                call = [rect |-> rect, method |-> "update_rect", pixels |-> len]
          \/ \E len \in Lengths(texture, NoRect) :
                /\ rect = NoRect
                /\ call = [rect |-> NoRect, method |-> "update", pixels |-> len]
    /\ returned = "none"
    /\ native = <<>>
    /\ wrappers = <<>>
    /\ decl = <<>>
    /\ emit = NoEmit
    /\ api = NoApi
    /\ sections = <<>>
    /\ file = NoFile
    /\ TypeIdle
    /\ EnumIdle

TextureFrame == <<data_type, type_result, name, raw_parts, value_name, name_result,
                  values, idx, seen, code, decl, emit, api, sections, file,
                  wrappers, texture, call>>

\* texture.rs 895-905
update ==
    /\ pc = "texture_call"
    /\ call.method = "update"
    /\ IF SizeFits(texture, call.pixels)
       THEN /\ native' = Append(native, [func |-> "UpdateTexture", rect |-> NoRect,
                                         pixels |-> call.pixels])
            /\ returned' = "true"
       ELSE /\ native' = native
            /\ returned' = "false"
    /\ pc' = "texture_done"
    /\ UNCHANGED TextureFrame

\* texture.rs 909-925
update_rect ==
    /\ pc = "texture_call"
    /\ call.method = "update_rect"
    /\ IF RectSizeFits(texture, call.rect, call.pixels) /\ RectFits(texture, call.rect)
       THEN /\ native' = Append(native, [func |-> "UpdateTextureRec",
                                         rect |-> call.rect, pixels |-> call.pixels])
            /\ returned' = "true"
       ELSE /\ native' = native
            /\ returned' = "false"
    /\ pc' = "texture_done"
    /\ UNCHANGED TextureFrame

NextTexture ==
    \/ update
    \/ update_rect

SpecTexture == InitTexture /\ [][NextTexture]_vars

TextureDone == pc = "texture_done"

\* the rectangle lies within the texture, its right and bottom edges included
Within(tex, rect) ==
    /\ rect.x >= 0
    /\ rect.y >= 0
    /\ rect.x + rect.width <= as_f32(tex.width)
    /\ rect.y + rect.height <= as_f32(tex.height)

\* `len` is the pixel data size of a rect.width x rect.height area
Sized(tex, rect, len) ==
    len = get_pixel_data_size(as_u32(rect.width), as_u32(rect.height), tex.format)

UpdateRectCalled == TextureDone /\ call.method = "update_rect"

\* C19: Texture::update_rect returns true and calls UpdateTextureRec when the
\* length of pixels is the pixel data size of the rectangle's area and the
\* rectangle lies within the texture, one that touches the right or bottom edge
\* or covers the whole texture included; it returns false, with no native call,
\* only when the size is wrong or the rectangle goes out of bounds.
C19_UpdateRectWithinBounds ==
    UpdateRectCalled =>
        /\ (Sized(texture, call.rect, call.pixels) /\ Within(texture, call.rect)) =>
              /\ returned = "true"
              /\ native = <<[func |-> "UpdateTextureRec", rect |-> call.rect,
                             pixels |-> call.pixels]>>
        /\ returned = "false" =>
              /\ native = <<>>
              /\ ~Sized(texture, call.rect, call.pixels) \/ ~Within(texture, call.rect)

\* the whole of a 2 x 2 grayscale texture, with 4 bytes of pixels, is refused
C19_WholeTextureRefused ==
    /\ UpdateRectCalled
    /\ texture = [width |-> 2, height |-> 2, format |-> "UncompressedGrayscale"]
    /\ call.rect = [x |-> 0, y |-> 0, width |-> as_f32(2), height |-> as_f32(2)]
    /\ call.pixels = 4
    /\ returned = "false"
    /\ native = <<>>

UpdateCalled == TextureDone /\ call.method = "update"

\* C20: Texture::update returns true exactly when the length of pixels is the
\* texture's pixel data size, and then calls UpdateTexture once; for every other
\* length it returns false and makes no native call.
C20_UpdateExactSize ==
    UpdateCalled =>
        /\ returned = "true" <=> call.pixels = Texture_get_pixel_data_size(texture)
        /\ returned = "true" =>
              native = <<[func |-> "UpdateTexture", rect |-> NoRect,
                          pixels |-> call.pixels]>>
        /\ returned # "true" => (returned = "false" /\ native = <<>>)

C20_Witness ==
    /\ UpdateCalled
    /\ texture = [width |-> 2, height |-> 1, format |-> "UncompressedR8g8b8a8"]
    /\ call.pixels = 8
    /\ returned = "true"
    /\ Len(native) = 1

C20_WrongSizeRefused ==
    /\ UpdateCalled
    /\ call.pixels = Texture_get_pixel_data_size(texture) + 1
    /\ returned = "false"
    /\ native = <<>>

---------------------------------------------------------------------------
(* The lives of the wrapper values: construction, methods, moves and drop  *)

\* the Drop impls: core.rs 501-508, audio.rs 30-35, 172-177, 299-304, 416-421,
\* 560-565, texture.rs 815-820, 978-983, 1042-1047, text.rs 200-205,
\* shader.rs 174-179, model.rs 286-291, 436-441, 571-576
Release(type) ==
    CASE type = "Raylib" -> "CloseWindow"
      [] type = "AudioDevice" -> "CloseAudioDevice"
      [] type = "Wave" -> "UnloadWave"
      [] type = "AudioStream" -> "UnloadAudioStream"
      [] type = "Sound" -> "UnloadSound"
      [] type = "Music" -> "UnloadMusicStream"
      [] type = "Image" -> "UnloadImage"
      [] type = "Texture" -> "UnloadTexture"
      [] type = "RenderTexture" -> "UnloadRenderTexture"
      [] type = "Font" -> "UnloadFont"
      [] type = "Shader" -> "UnloadShader"
      [] type = "Mesh" -> "UnloadMesh"
      [] type = "Model" -> "UnloadModel"
      [] type = "Material" -> "UnloadMaterial"

WrapperTypes ==
    {"Raylib", "AudioDevice", "Wave", "AudioStream", "Sound", "Music", "Image",
     "Texture", "RenderTexture", "Font", "Shader", "Mesh", "Model", "Material"}

\* a value just constructed, owning its native handle; owner becomes the value
\* its native handle was handed to, if it is ever moved into one
Loaded(type) == [type |-> type, state |-> "live", used |-> FALSE, owner |-> 0]

Live(w) == w \in 1..Len(wrappers) /\ wrappers[w].state = "live"

InitWrapper ==
    /\ pc = "wrappers"
    /\ wrappers = <<>>
    /\ native = <<>>
    /\ texture = <<>>
    /\ call = <<>>
    /\ returned = "none"
    /\ decl = <<>>
    /\ emit = NoEmit
    /\ api = NoApi
    /\ sections = <<>>
    /\ file = NoFile
    /\ TypeIdle
    /\ EnumIdle

WrapperFrame == <<pc, data_type, type_result, name, raw_parts, value_name,
                  name_result, values, idx, seen, code, decl, emit, api, sections,
                  file, texture, call, returned>>

\* close_window makes the release call itself and the Drop impl makes it again
Closed_Twice(w) ==
    /\ wrappers' = [wrappers EXCEPT ![w].state = "dropped", ![w].used = TRUE]
    /\ native' = native \o <<[func |-> Release(wrappers[w].type), wrapper |-> w],
                             [func |-> Release(wrappers[w].type), wrapper |-> w]>>

\* core.rs 99-101: close_window(self) is drop(self), whose Drop impl runs once
Closed(w) ==
    /\ wrappers' = [wrappers EXCEPT ![w].state = "dropped", ![w].used = TRUE]
    /\ native' = Append(native, [func |-> Release(wrappers[w].type), wrapper |-> w])

\* the value goes out of scope: its Drop impl makes the one release call
Dropped(w) ==
    /\ wrappers' = [wrappers EXCEPT ![w].state = "dropped"]
    /\ native' = Append(native, [func |-> Release(wrappers[w].type), wrapper |-> w])

\* a constructor: init_window, AudioDevice::init, from_file, ...
Load ==
    /\ Len(wrappers) < MaxWrappers
    /\ \E type \in WrapperTypes : wrappers' = Append(wrappers, Loaded(type))
    /\ UNCHANGED <<native, WrapperFrame>>

\* a method that takes &self or &mut self: none of them makes a release call
Method ==
    /\ \E w \in 1..Len(wrappers) :
          /\ Live(w)
          /\ wrappers' = [wrappers EXCEPT ![w].used = TRUE]
    /\ UNCHANGED <<native, WrapperFrame>>

\* audio.rs 163-170, texture.rs 806-813: WaveCopy and ImageCopy return a new
\* native value, owned by the clone
Clone ==
    /\ Len(wrappers) < MaxWrappers
    /\ \E w \in 1..Len(wrappers) :
          /\ Live(w)
          /\ wrappers[w].type \in {"Wave", "Image"}
          /\ wrappers' = Append(wrappers, Loaded(wrappers[w].type))
    /\ UNCHANGED <<native, WrapperFrame>>

\* core.rs 99-101
close_window ==
    /\ \E w \in 1..Len(wrappers) :
          /\ Live(w)
          /\ wrappers[w].type = "Raylib"
          /\ Closed(w)
    /\ UNCHANGED WrapperFrame

\* the mesh is not put in a ManuallyDrop: it is dropped when from_mesh returns
from_mesh_DropsMesh ==
    /\ Len(wrappers) < MaxWrappers
    /\ \E w \in 1..Len(wrappers) :
          /\ Live(w)
          /\ wrappers[w].type = "Mesh"
          /\ wrappers' = Append([wrappers EXCEPT ![w].state = "dropped",
                                                 ![w].owner = Len(wrappers) + 1],
                                Loaded("Model"))
          /\ native' = Append(native, [func |-> Release("Mesh"), wrapper |-> w])
    /\ UNCHANGED WrapperFrame

\* model.rs 377-383: the mesh is moved into a ManuallyDrop, its Drop impl never
\* runs, and the new Model holds its native value
from_mesh ==
    /\ Len(wrappers) < MaxWrappers
    /\ \E w \in 1..Len(wrappers) :
          /\ Live(w)
          /\ wrappers[w].type = "Mesh"
          /\ wrappers' = Append([wrappers EXCEPT ![w].state = "moved",
                                                 ![w].owner = Len(wrappers) + 1],
                                Loaded("Model"))
    /\ UNCHANGED <<native, WrapperFrame>>

\* model.rs 525-535: the texture is moved into a ManuallyDrop and handed to the
\* material
set_texture ==
    /\ \E m \in 1..Len(wrappers), t \in 1..Len(wrappers) :
          /\ Live(m) /\ wrappers[m].type = "Material"
          /\ Live(t) /\ wrappers[t].type = "Texture"
          /\ wrappers' = [wrappers EXCEPT ![t].state = "moved", ![t].owner = m,
                                          ![m].used = TRUE]
    /\ UNCHANGED <<native, WrapperFrame>>

\* the end of the scope of a value that was not moved
ScopeExit ==
    /\ \E w \in 1..Len(wrappers) :
          /\ Live(w)
          /\ Dropped(w)
    /\ UNCHANGED WrapperFrame

NextWrapper ==
    \/ Load
    \/ Method
    \/ Clone
    \/ close_window
    \/ from_mesh
    \/ set_texture
    \/ ScopeExit

SpecWrapper == InitWrapper /\ [][NextWrapper]_vars

\* the release calls made for wrapper value w
ReleaseCalls(calls, w) == {k \in 1..Len(calls) : calls[k].wrapper = w}

\* C18: for every wrapper value, over any sequence of method calls followed
\* by its drop, the matching native release function is called exactly once
\* for that value, at the step that drops it and never earlier, and no other
\* release function is called for it; close_window, which consumes the
\* Raylib, causes no second release.
C18_ReleasedOnceAtDrop ==
    /\ [](\A w \in 1..Len(wrappers) :
            /\ wrappers[w].state = "dropped" =>
                  Cardinality(ReleaseCalls(native, w)) = 1
            /\ wrappers[w].state # "dropped" => ReleaseCalls(native, w) = {}
            /\ \A k \in ReleaseCalls(native, w) :
                  native[k].func = Release(wrappers[w].type))
    /\ [][\A w \in 1..Len(wrappers) :
            ReleaseCalls(native', w) # ReleaseCalls(native, w) =>
                (wrappers[w].state = "live" /\ wrappers'[w].state = "dropped")]_vars

\* a Raylib closed by close_window next to a Wave used and then dropped
C18_Witness ==
    /\ Len(wrappers) = 2
    /\ wrappers[1] = [type |-> "Raylib", state |-> "dropped", used |-> TRUE,
                       owner |-> 0]
    /\ wrappers[2] = [type |-> "Wave", state |-> "dropped", used |-> TRUE,
                       owner |-> 0]
    /\ native = <<[func |-> "UnloadWave", wrapper |-> 2],
                  [func |-> "CloseWindow", wrapper |-> 1]>>

\* a mesh moved into a model is not dropped: the model's drop is the one call
MovedMeshNotReleased ==
    /\ Len(wrappers) = 2
    /\ wrappers[1].type = "Mesh" /\ wrappers[1].state = "moved"
    /\ wrappers[2].type = "Model" /\ wrappers[2].state = "dropped"
    /\ native = <<[func |-> "UnloadModel", wrapper |-> 2]>>

\* the release calls that reach the native handle of wrapper value w: those
\* made for w itself and, once it was handed over, those of its owner
HandleReleases(calls, w) ==
    ReleaseCalls(calls, w)
        \cup (IF wrappers[w].owner = 0 THEN {} ELSE ReleaseCalls(calls, wrappers[w].owner))

\* C24: ownership transfer suppresses the consumed wrapper's release: after
\* Model::from_mesh(mesh) the Mesh's own drop never calls UnloadMesh and after
\* Material::set_texture(map, texture) the Texture's own drop never calls
\* UnloadTexture; the handle is released only through the Model or Material
\* that owns it now, and never twice.
C24_TransferSuppressesRelease ==
    /\ [](pc = "wrappers" =>
            \A w \in 1..Len(wrappers) :
                wrappers[w].owner # 0 =>
                    /\ wrappers[w].type \in {"Mesh", "Texture"}
                    /\ wrappers[wrappers[w].owner].type
                          = (IF wrappers[w].type = "Mesh" THEN "Model" ELSE "Material")
                    /\ ReleaseCalls(native, w) = {}
                    /\ Cardinality(HandleReleases(native, w)) <= 1
                    /\ \A k \in HandleReleases(native, w) :
                          native[k].func = Release(wrappers[wrappers[w].owner].type))
    /\ [][pc = "wrappers" =>
            \A w \in 1..Len(wrappers) :
                wrappers[w].owner # 0 =>
                    /\ wrappers'[w].owner = wrappers[w].owner
                    /\ wrappers'[w].state = "moved"]_vars

\* a texture handed to a material that is then dropped: one UnloadMaterial
C24_Witness ==
    /\ Len(wrappers) = 2
    /\ wrappers[1].type = "Texture" /\ wrappers[1].state = "moved"
    /\ wrappers[1].owner = 2
    /\ wrappers[2].type = "Material" /\ wrappers[2].state = "dropped"
    /\ native = <<[func |-> "UnloadMaterial", wrapper |-> 2]>>


---------------------------------------------------------------------------
(* The draw-mode guards of drawing.rs                                      *)

\* drawing.rs 17, 42, 68, 94, 120, 146, 172, 198: the guard structs; each one
\* but DrawHandle holds &'a mut T, the guard (or handle) it was created from
GuardTypes ==
    {"DrawHandle", "DrawMode2D", "DrawMode3D", "DrawTextureMode", "DrawShaderMode",
     "DrawBlendMode", "DrawScissorMode", "DrawVrStereoMode"}

\* drawing.rs 234-311: the native call of the begin_* method that returns the guard
BeginCall(type) ==
    CASE type = "DrawMode2D" -> "BeginMode2D"
      [] type = "DrawMode3D" -> "BeginMode3D"
      [] type = "DrawTextureMode" -> "BeginTextureMode"
      [] type = "DrawShaderMode" -> "BeginShaderMode"
      [] type = "DrawBlendMode" -> "BeginBlendMode"
      [] type = "DrawScissorMode" -> "BeginScissorMode"
      [] type = "DrawVrStereoMode" -> "BeginVrStereoMode"

\* drawing.rs 35-40, 61-66, 87-92, 113-118, 139-144, 165-170, 191-196, 217-222:
\* the native call of the guard's Drop impl
DropCall(type) ==
    CASE type = "DrawHandle" -> "EndDrawing"
      [] type = "DrawMode2D" -> "EndMode2D"
      [] type = "DrawMode3D" -> "EndMode3D"
      [] type = "DrawTextureMode" -> "EndTextureMode"
      [] type = "DrawShaderMode" -> "EndShaderMode"
      [] type = "DrawBlendMode" -> "EndBlendMode"
      [] type = "DrawScissorMode" -> "EndScissorMode"
      [] type = "DrawVrStereoMode" -> "EndVrStereoMode"

\* drawing.rs 19, 44, 70, 96, 122, 148, 174, 200: the type whose impl block
\* defines the end_* method; end_blend_mode is defined in an impl block of
\* DrawTextureMode (drawing.rs 148-154)
Receiver(method) ==
    CASE method = "end_drawing" -> "DrawHandle"
      [] method = "end_mode_2d" -> "DrawMode2D"
      [] method = "end_mode_3d" -> "DrawMode3D"
      [] method = "end_texture_mode" -> "DrawTextureMode"
      [] method = "end_shader_mode" -> "DrawShaderMode"
      [] method = "end_blend_mode" -> "DrawTextureMode"
      [] method = "end_scissor_mode" -> "DrawScissorMode"
      [] method = "end_vr_stereo_mode" -> "DrawVrStereoMode"

\* a guard just returned by a begin_* method called on guard g
Guard(type, g) == [type |-> type, state |-> "live", used |-> FALSE, owner |-> g]

\* the guards that hold the mutable borrow of guard g
Borrowers(g) ==
    {h \in 1..Len(wrappers) : wrappers[h].state = "live" /\ wrappers[h].owner = g}

\* guard g may be used, moved or dropped: it is alive and not mutably borrowed
Usable(g) == Live(g) /\ Borrowers(g) = {}

\* the handle of the frame being drawn (drawing.rs 17), borrowing the Raylib
InitDraw ==
    /\ pc = "drawing"
    /\ wrappers = <<Guard("DrawHandle", 0)>>
    /\ native = <<>>
    /\ texture = <<>>
    /\ call = [method |-> "none", wrapper |-> 0]
    /\ returned = "none"
    /\ decl = <<>>
    /\ emit = NoEmit
    /\ api = NoApi
    /\ sections = <<>>
    /\ file = NoFile
    /\ TypeIdle
    /\ EnumIdle

DrawFrame == <<pc, data_type, type_result, name, raw_parts, value_name,
               name_result, values, idx, seen, code, decl, emit, api, sections,
               file, texture, returned>>

\* Draw::begin_* called on a guard: the native Begin call, then the new guard
\* that borrows the one it was called on; the call is logged with the guard
\* it opens
Begin(method, type) ==
    /\ Len(wrappers) < MaxGuards
    /\ \E g \in 1..Len(wrappers) :
          /\ Usable(g)
          /\ native' = Append(native, [func |-> BeginCall(type),
                                        wrapper |-> Len(wrappers) + 1])
          /\ wrappers' = Append(wrappers, Guard(type, g))
          /\ call' = [method |-> method, wrapper |-> g]
    /\ UNCHANGED DrawFrame

\* drawing.rs 236-242
begin_mode_2d == Begin("begin_mode_2d", "DrawMode2D")

\* drawing.rs 246-252
begin_mode_3d == Begin("begin_mode_3d", "DrawMode3D")

\* drawing.rs 256-262
begin_texture_mode == Begin("begin_texture_mode", "DrawTextureMode")

\* drawing.rs 266-272
begin_shader_mode == Begin("begin_shader_mode", "DrawShaderMode")

\* drawing.rs 276-282
begin_blend_mode == Begin("begin_blend_mode", "DrawBlendMode")

\* drawing.rs 286-298
begin_scissor_mode == Begin("begin_scissor_mode", "DrawScissorMode")

\* drawing.rs 302-311
begin_vr_stereo_mode == Begin("begin_vr_stereo_mode", "DrawVrStereoMode")

\* drawing.rs 230-232: a draw call through a guard, here the first one through it
clear_background ==
    /\ \E g \in 1..Len(wrappers) :
          /\ Usable(g)
          /\ ~wrappers[g].used
          /\ native' = Append(native, [func |-> "ClearBackground", wrapper |-> g])
          /\ wrappers' = [wrappers EXCEPT ![g].used = TRUE]
          /\ call' = [method |-> "clear_background", wrapper |-> g]
    /\ UNCHANGED DrawFrame

\* the Drop impl makes its End call twice
GuardDropped_Twice(g) ==
    /\ wrappers' = [wrappers EXCEPT ![g].state = "dropped"]
    /\ native' = native \o <<[func |-> DropCall(wrappers[g].type), wrapper |-> g],
                             [func |-> DropCall(wrappers[g].type), wrapper |-> g]>>

\* the Drop impl of the guard's type runs: one End call
GuardDropped(g) ==
    /\ wrappers' = [wrappers EXCEPT ![g].state = "dropped"]
    /\ native' = Append(native, [func |-> DropCall(wrappers[g].type), wrapper |-> g])

\* an end_* method: it takes self of the type of its impl block and drops it
End(method) ==
    /\ \E g \in 1..Len(wrappers) :
          /\ Usable(g)
          /\ wrappers[g].type = Receiver(method)
          /\ GuardDropped(g)
          /\ call' = [method |-> method, wrapper |-> g]
    /\ UNCHANGED DrawFrame

\* drawing.rs 22-24
end_drawing == End("end_drawing")

\* drawing.rs 47-49
end_mode_2d == End("end_mode_2d")

\* drawing.rs 73-75
end_mode_3d == End("end_mode_3d")

\* drawing.rs 99-101
end_texture_mode == End("end_texture_mode")

\* drawing.rs 125-127
end_shader_mode == End("end_shader_mode")

\* drawing.rs 151-153
end_blend_mode == End("end_blend_mode")

\* drawing.rs 177-179
end_scissor_mode == End("end_scissor_mode")

\* drawing.rs 203-205
end_vr_stereo_mode == End("end_vr_stereo_mode")

\* the guard goes out of scope
GuardScopeExit ==
    /\ \E g \in 1..Len(wrappers) :
          /\ Usable(g)
          /\ GuardDropped(g)
          /\ call' = [method |-> "drop", wrapper |-> g]
    /\ UNCHANGED DrawFrame

NextDraw ==
    \/ begin_mode_2d
    \/ begin_mode_3d
    \/ begin_texture_mode
    \/ begin_shader_mode
    \/ begin_blend_mode
    \/ begin_scissor_mode
    \/ begin_vr_stereo_mode
    \/ clear_background
    \/ end_drawing
    \/ end_mode_2d
    \/ end_mode_3d
    \/ end_texture_mode
    \/ end_shader_mode
    \/ end_blend_mode
    \/ end_scissor_mode
    \/ end_vr_stereo_mode
    \/ GuardScopeExit

SpecDraw == InitDraw /\ [][NextDraw]_vars

---------------------------------------------------------------------------
(* Properties of the draw-mode guards                                      *)

\* the positions of the native calls of function f logged with guard g
CallsOf(calls, g, f) ==
    {k \in 1..Len(calls) : calls[k].wrapper = g /\ calls[k].func = f}

EndNames ==
    {"EndDrawing", "EndMode2D", "EndMode3D", "EndTextureMode", "EndShaderMode",
     "EndBlendMode", "EndScissorMode", "EndVrStereoMode"}

\* the positions of the End* calls logged with guard g
EndsOf(calls, g) ==
    {k \in 1..Len(calls) : calls[k].wrapper = g /\ calls[k].func \in EndNames}

\* C21: end_blend_mode ends blending mode: it is a method of the guard that
\* begin_blend_mode returns (DrawBlendMode), and a call of it issues
\* EndBlendMode exactly once and no other End* call.
C21_EndBlendModeEndsBlending ==
    (pc = "drawing" /\ call.method = "end_blend_mode") =>
        /\ wrappers[call.wrapper].type = "DrawBlendMode"
        /\ native[Len(native)] = [func |-> "EndBlendMode", wrapper |-> call.wrapper]
        /\ EndsOf(native, call.wrapper) = {Len(native)}

\* end_blend_mode called on the guard of begin_texture_mode ends texture mode
C21_Witness ==
    /\ pc = "drawing"
    /\ call = [method |-> "end_blend_mode", wrapper |-> 2]
    /\ wrappers[2].type = "DrawTextureMode"
    /\ native = <<[func |-> "BeginTextureMode", wrapper |-> 2],
                  [func |-> "EndTextureMode", wrapper |-> 2]>>

\* the End* call that matches a Begin* call: the same name with End for Begin
Matching(begin) == "End" \o SubSeq(begin, 6, Len(begin))

\* guard h was created from guard g, directly or through other guards
RECURSIVE Inside(_, _)
Inside(h, g) ==
    /\ wrappers[h].owner # 0
    /\ \/ wrappers[h].owner = g
       \/ Inside(wrappers[h].owner, g)

\* the one position in the calls of the only element of a set of positions
Pos(S) == CHOOSE k \in S : TRUE

\* C26: every guard created by a begin_* operation (2D, 3D, texture, shader,
\* blend, scissor, VR stereo) issues its matching End* call exactly once, when
\* it is dropped or consumed by an end_* method; the End* calls of nested
\* guards come in the reverse order of their Begin* calls, and no draw call is
\* made through an outer guard while an inner guard is alive.
C26_GuardsEndOnceInReverseOrder ==
    /\ [](pc = "drawing" =>
            \A h \in 2..Len(wrappers) :
                /\ Cardinality(CallsOf(native, h, BeginCall(wrappers[h].type))) = 1
                /\ wrappers[h].state = "live" => EndsOf(native, h) = {}
                /\ wrappers[h].state = "dropped" =>
                      /\ Cardinality(EndsOf(native, h)) = 1
                      /\ EndsOf(native, h) =
                            CallsOf(native, h, Matching(BeginCall(wrappers[h].type)))
                /\ \A g \in 2..Len(wrappers) :
                      Inside(h, g) =>
                          /\ Pos(CallsOf(native, g, BeginCall(wrappers[g].type)))
                                < Pos(CallsOf(native, h, BeginCall(wrappers[h].type)))
                          /\ wrappers[g].state = "dropped" =>
                                /\ wrappers[h].state = "dropped"
                                /\ Pos(EndsOf(native, h)) < Pos(EndsOf(native, g)))
    /\ [][pc = "drawing" =>
            /\ \A g \in 1..Len(wrappers) :
                  EndsOf(native', g) # EndsOf(native, g) =>
                      (wrappers[g].state = "live" /\ wrappers'[g].state = "dropped")
            /\ \A k \in (Len(native) + 1)..Len(native') :
                  native'[k].func = "ClearBackground" =>
                      \A h \in 1..Len(wrappers) :
                          Inside(h, native'[k].wrapper) => wrappers[h].state = "dropped"]_vars

\* a blend guard inside a 2D guard inside the draw handle, drawn through and
\* then ended from the innermost outwards
C26_Witness ==
    /\ pc = "drawing"
    /\ native = <<[func |-> "BeginMode2D", wrapper |-> 2],
                  [func |-> "BeginBlendMode", wrapper |-> 3],
                  [func |-> "ClearBackground", wrapper |-> 3],
                  [func |-> "EndBlendMode", wrapper |-> 3],
                  [func |-> "EndMode2D", wrapper |-> 2],
                  [func |-> "EndDrawing", wrapper |-> 1]>>

---------------------------------------------------------------------------
(* The texture-coordinate accessors of Mesh (src/model.rs)                 *)

\* math.rs: the Vector2 values the arrays of the model hold
Vector2s == {[x |-> 0, y |-> 0], [x |-> 1, y |-> 0], [x |-> 0, y |-> 1]}

\* model.rs 14-18: a Mesh and the fields of its ffi::Mesh the accessors read;
\* each array field holds vertexCount items
Meshes ==
    UNION {{[raw |-> [vertexCount |-> n, texcoords |-> t1, texcoords2 |-> t2],
             type |-> "Mesh"] :
                t1 \in SeqsOfLen(Vector2s, n), t2 \in SeqsOfLen(Vector2s, n)} :
           n \in 0..MaxVertices}

\* std::slice::from_raw_parts(ptr, len): the first len items of the array the
\* pointer field points to, and which array that is
from_raw_parts(raw, field, len) ==
    [items |-> SubSeq(raw[field], 1, len), array |-> field]

\* the accessor reads the field it is named after
texcoords2_slice_OwnField(raw) == from_raw_parts(raw, "texcoords2", raw.vertexCount)

\* model.rs 39-43, 47-51
texcoords_slice(raw) == from_raw_parts(raw, "texcoords", raw.vertexCount)

\* model.rs 55-59, 63-67: built from self.raw.texcoords
texcoords2_slice(raw) == from_raw_parts(raw, "texcoords", raw.vertexCount)

\* a call of an accessor with no store through the slice it returns
NoStore(method) == [value |-> [x |-> 0, y |-> 0], method |-> method, index |-> 0]

InitMesh ==
    /\ pc = "mesh"
    /\ wrappers \in {<<m>> : m \in Meshes}
    /\ call = NoStore("none")
    /\ returned = "none"
    /\ native = <<>>
    /\ texture = <<>>
    /\ decl = <<>>
    /\ emit = NoEmit
    /\ api = NoApi
    /\ sections = <<>>
    /\ file = NoFile
    /\ TypeIdle
    /\ EnumIdle

MeshFrame == <<pc, data_type, type_result, name, raw_parts, value_name,
               name_result, values, idx, seen, code, decl, emit, api, sections,
               file, texture, native>>

\* a shared accessor: the slice is returned, the mesh is left as it is
Read(method, slice) ==
    /\ call' = NoStore(method)
    /\ returned' = slice
    /\ UNCHANGED <<wrappers, MeshFrame>>

\* a _mut accessor and one store through the slice it returns: the store lands
\* in the array the slice was built from
Write(method, slice) ==
    /\ \E i \in 1..Len(slice.items), v \in Vector2s :
          /\ call' = [value |-> v, method |-> method, index |-> i]
          /\ wrappers' = [wrappers EXCEPT ![1].raw[slice.array][i] = v]
          /\ returned' = [slice EXCEPT !.items[i] = v]
    /\ UNCHANGED MeshFrame

\* model.rs 39-43
texcoords == Read("texcoords", texcoords_slice(wrappers[1].raw))

\* model.rs 47-51
texcoords_mut == Write("texcoords_mut", texcoords_slice(wrappers[1].raw))

\* model.rs 55-59
texcoords2 == Read("texcoords2", texcoords2_slice(wrappers[1].raw))

\* model.rs 63-67
texcoords2_mut == Write("texcoords2_mut", texcoords2_slice(wrappers[1].raw))

NextMesh ==
    \/ texcoords
    \/ texcoords_mut
    \/ texcoords2
    \/ texcoords2_mut

SpecMesh == InitMesh /\ [][NextMesh]_vars

\* C22: texcoords2 and texcoords2_mut expose the second texture-coordinate
\* array of the mesh (the native field texcoords2), a different array from the
\* one texcoords and texcoords_mut expose (the native field texcoords).
C22_SecondTexcoords ==
    /\ (pc = "mesh" /\ call.method \in {"texcoords2", "texcoords2_mut"}) =>
          /\ returned.array = "texcoords2"
          /\ returned.items = wrappers[1].raw.texcoords2
          /\ returned.array # texcoords_slice(wrappers[1].raw).array
    /\ (pc = "mesh" /\ call.method \in {"texcoords", "texcoords_mut"}) =>
          /\ returned.array = "texcoords"
          /\ returned.items = wrappers[1].raw.texcoords

\* a store through texcoords2_mut changes the first array and leaves the
\* second as it was
C22_Witness ==
    /\ pc = "mesh"
    /\ call = [value |-> [x |-> 1, y |-> 0], method |-> "texcoords2_mut", index |-> 1]
    /\ returned = [items |-> <<[x |-> 1, y |-> 0]>>, array |-> "texcoords"]
    /\ wrappers[1].raw = [vertexCount |-> 1, texcoords |-> <<[x |-> 1, y |-> 0]>>,
                          texcoords2 |-> <<[x |-> 0, y |-> 0]>>]

---------------------------------------------------------------------------
(* ModelAnimation::from_file and the drop of the animations (src/model.rs) *)

\* model.rs 633-635: the wrapper holds a bitwise copy of item i of the native
\* array, so it shares that item's native animation (bones, frame poses)
Animation(load, item) ==
    [item |-> item, type |-> "ModelAnimation", state |-> "live", used |-> FALSE,
     load |-> load]

\* the native animations a release call is passed: the one of a wrapper, or
\* the first count items of the array of one LoadModelAnimations call
ReleaseOf(func, load, items) == [items |-> items, func |-> func, load |-> load]

InitAnimation ==
    /\ pc = "animations"
    /\ wrappers = <<>>
    /\ native = <<>>
    /\ texture = <<>>
    /\ call = <<>>
    /\ returned = "none"
    /\ decl = <<>>
    /\ emit = NoEmit
    /\ api = NoApi
    /\ sections = <<>>
    /\ file = NoFile
    /\ TypeIdle
    /\ EnumIdle

AnimationFrame == <<pc, data_type, type_result, name, raw_parts, value_name,
                    name_result, values, idx, seen, code, decl, emit, api,
                    sections, file, texture, returned>>

\* the number of LoadModelAnimations calls made so far
Loads(calls) ==
    Cardinality({k \in 1..Len(calls) : calls[k].func = "LoadModelAnimations"})

\* model.rs 624-643: LoadModelAnimations gives an array of count animations,
\* each is read into a wrapper, then UnloadModelAnimations(anims, count) is
\* called on the array and the wrappers are returned
from_file(count) ==
    LET load == Loads(native) + 1
    IN  /\ wrappers' = wrappers \o [i \in 1..count |-> Animation(load, i)]
        /\ native' = native \o <<ReleaseOf("LoadModelAnimations", load, {}),
                                 ReleaseOf("UnloadModelAnimations", load, 1..count)>>
        /\ call' = [method |-> "from_file", load |-> load, count |-> count]

\* one call of from_file on a file that holds count animations
LoadAnimations ==
    /\ Loads(native) < MaxLoads
    /\ \E count \in 0..(MaxAnimations - Len(wrappers)) : from_file(count)
    /\ UNCHANGED AnimationFrame

\* model.rs 588-590: bones(&self) reads the native animation
bones ==
    /\ \E w \in 1..Len(wrappers) :
          /\ Live(w)
          /\ ~wrappers[w].used
          /\ wrappers' = [wrappers EXCEPT ![w].used = TRUE]
          /\ call' = [method |-> "bones", load |-> wrappers[w].load, count |-> 0]
    /\ UNCHANGED <<native, AnimationFrame>>

\* model.rs 670-675: the wrapper goes out of scope
AnimationDropped ==
    /\ \E w \in 1..Len(wrappers) :
          /\ Live(w)
          /\ wrappers' = [wrappers EXCEPT ![w].state = "dropped"]
          /\ native' = Append(native, ReleaseOf("UnloadModelAnimation", wrappers[w].load,
                                                {wrappers[w].item}))
          /\ call' = [method |-> "drop", load |-> wrappers[w].load, count |-> 0]
    /\ UNCHANGED AnimationFrame

NextAnimation ==
    \/ LoadAnimations
    \/ bones
    \/ AnimationDropped

SpecAnimation == InitAnimation /\ [][NextAnimation]_vars

\* the release calls that are passed the native animation of wrapper w
Releasing(calls, w) ==
    {k \in 1..Len(calls) :
        /\ calls[k].func \in {"UnloadModelAnimation", "UnloadModelAnimations"}
        /\ calls[k].load = wrappers[w].load
        /\ wrappers[w].item \in calls[k].items}

\* C23: every ModelAnimation returned by from_file owns a native animation
\* that has not been released when from_file returns, and that animation is
\* released exactly once in total, by the wrapper's drop
\* (UnloadModelAnimation); from_file itself issues no release covering the
\* animations it hands out.
C23_AnimationsReleasedOnce ==
    pc = "animations" =>
        \A w \in 1..Len(wrappers) :
            /\ wrappers[w].state = "live" => Releasing(native, w) = {}
            /\ wrappers[w].state = "dropped" =>
                  Cardinality(Releasing(native, w)) = 1
            /\ \A k \in Releasing(native, w) : native[k].func = "UnloadModelAnimation"

\* from_file on a file with one animation has returned: the animation the
\* wrapper holds was already passed to UnloadModelAnimations
C23_Witness ==
    /\ pc = "animations"
    /\ Len(wrappers) = 1
    /\ wrappers[1].state = "live"
    /\ native = <<ReleaseOf("LoadModelAnimations", 1, {}),
                  ReleaseOf("UnloadModelAnimations", 1, {1})>>

---------------------------------------------------------------------------
(* The reference-counted Texture and RenderTexture of src/textures.rs      *)

\* textures.rs 974, 1195: the native function that loads the handle
LoadCall(type) ==
    CASE type = "Texture" -> "LoadTexture"
      [] type = "RenderTexture" -> "LoadRenderTexture"

\* textures.rs 1168, 1210: the native function that unloads the handle
UnloadCall(type) ==
    CASE type = "Texture" -> "UnloadTexture"
      [] type = "RenderTexture" -> "UnloadRenderTexture"

\* textures.rs 938-941, 1173-1176: a wrapper value and the handle its Rc holds
Shared(type, handle) == [type |-> type, state |-> "live", handle |-> handle]

\* Rc::get_mut: Some only when no other Rc points to the value (the module
\* makes no Weak)
get_mut(rc) == rc.strong = 1

InitShared ==
    /\ pc = "shared"
    /\ wrappers = <<>>
    /\ native = <<>>
    /\ texture = <<>>
    /\ call = <<>>
    /\ returned = "none"
    /\ decl = <<>>
    /\ emit = NoEmit
    /\ api = NoApi
    /\ sections = <<>>
    /\ file = NoFile
    /\ TypeIdle
    /\ EnumIdle

SharedFrame == <<pc, data_type, type_result, name, raw_parts, value_name,
                 name_result, values, idx, seen, code, decl, emit, api,
                 sections, file, call, returned>>

\* textures.rs 970-976, 1193-1197: Rc::new of a freshly loaded native handle
SharedLoad ==
    /\ Len(wrappers) < MaxShared
    /\ \E type \in {"Texture", "RenderTexture"} :
          /\ texture' = Append(texture, [strong |-> 1])
          /\ wrappers' = Append(wrappers, Shared(type, Len(texture) + 1))
          /\ native' = Append(native, [func |-> LoadCall(type),
                                        handle |-> Len(texture) + 1])
    /\ UNCHANGED SharedFrame

\* textures.rs 938, 1173: #[derive(Clone)] clones the Rc, one more strong
\* reference to the same handle
SharedClone ==
    /\ Len(wrappers) < MaxShared
    /\ \E w \in 1..Len(wrappers) :
          /\ Live(w)
          /\ texture' = [texture EXCEPT ![wrappers[w].handle].strong = @ + 1]
          /\ wrappers' = Append(wrappers, Shared(wrappers[w].type, wrappers[w].handle))
    /\ UNCHANGED <<native, SharedFrame>>

\* the Drop impl unloads without asking whether other clones are left
Unloads_Always(w) ==
    Append(native, [func |-> UnloadCall(wrappers[w].type),
                    handle |-> wrappers[w].handle])

\* textures.rs 1164-1171, 1206-1213: the Drop impl unloads the handle when
\* Rc::get_mut succeeds
Unloads(w) ==
    IF get_mut(texture[wrappers[w].handle])
    THEN Append(native, [func |-> UnloadCall(wrappers[w].type),
                         handle |-> wrappers[w].handle])
    ELSE native

\* a wrapper value goes out of scope: its Drop impl runs, then its Rc field is
\* dropped, one strong reference less
SharedDropped ==
    /\ \E w \in 1..Len(wrappers) :
          /\ Live(w)
          /\ native' = Unloads(w)
          /\ texture' = [texture EXCEPT ![wrappers[w].handle].strong = @ - 1]
          /\ wrappers' = [wrappers EXCEPT ![w].state = "dropped"]
    /\ UNCHANGED SharedFrame

NextShared ==
    \/ SharedLoad
    \/ SharedClone
    \/ SharedDropped

SpecShared == InitShared /\ [][NextShared]_vars

\* the live wrapper values that hold handle h
Holders(ws, h) == {w \in 1..Len(ws) : ws[w].state = "live" /\ ws[w].handle = h}

\* the positions of the unload calls made for handle h
UnloadsOf(calls, h) ==
    {k \in 1..Len(calls) :
        calls[k].handle = h /\ calls[k].func \in {"UnloadTexture", "UnloadRenderTexture"}}

\* C25: for the reference-counted Texture and RenderTexture, over any
\* interleaving of clone and drop the native unload function is called
\* exactly once per handle, by the drop of the last remaining clone, and never
\* while another clone of the same handle is still alive.
C25_UnloadedByLastClone ==
    /\ [](pc = "shared" =>
            \A h \in 1..Len(texture) :
                /\ Holders(wrappers, h) # {} => UnloadsOf(native, h) = {}
                /\ Holders(wrappers, h) = {} => Cardinality(UnloadsOf(native, h)) = 1
                /\ \A k \in UnloadsOf(native, h) :
                      \E w \in 1..Len(wrappers) :
                          /\ wrappers[w].handle = h
                          /\ native[k].func = "Unload" \o wrappers[w].type)
    /\ [][pc = "shared" =>
            \A h \in 1..Len(texture) :
                UnloadsOf(native', h) # UnloadsOf(native, h) =>
                    /\ Cardinality(Holders(wrappers, h)) = 1
                    /\ Holders(wrappers', h) = {}]_vars

\* a texture cloned twice: the first two drops are silent, the third unloads
C25_Witness ==
    /\ pc = "shared"
    /\ Len(wrappers) = 3
    /\ \A w \in 1..3 : wrappers[w] = [type |-> "Texture", state |-> "dropped",
                                      handle |-> 1]
    /\ texture = <<[strong |-> 0]>>
    /\ native = <<[func |-> "LoadTexture", handle |-> 1],
                  [func |-> "UnloadTexture", handle |-> 1]>>

---------------------------------------------------------------------------
(* Color::to_hex and Color::from_hex (src/color.rs)                        *)

RECURSIVE BitAnd16(_, _)
BitAnd16(a, b) ==
    IF a = 0 \/ b = 0 THEN 0
    ELSE 2 * BitAnd16(a \div 2, b \div 2) + (IF a % 2 = 1 /\ b % 2 = 1 THEN 1 ELSE 0)

\* u32 & u32
BitAnd32(v, w) == [hi |-> BitAnd16(v.hi, w.hi), lo |-> BitAnd16(v.lo, w.lo)]

\* u32 << n for 0 <= n < 32: the bits shifted out at the top are lost
Shl32(v, n) ==
    IF n >= 16 THEN [hi |-> (v.lo * 2^(n - 16)) % Half, lo |-> 0]
    ELSE [hi |-> (v.hi * 2^n + v.lo \div 2^(16 - n)) % Half, lo |-> (v.lo * 2^n) % Half]

\* u32 >> n for 0 <= n < 32
Shr32(v, n) ==
    IF n >= 16 THEN [hi |-> 0, lo |-> v.hi \div 2^(n - 16)]
    ELSE [hi |-> v.hi \div 2^n, lo |-> v.lo \div 2^n + (v.hi % 2^n) * 2^(16 - n)]

\* u32 as u8: the low eight bits
as_u8(v) == v.lo % 256

\* color.rs 15-21
Color(r, g, b, a) == [a |-> a, b |-> b, r |-> r, g |-> g]

\* alpha in the top byte, the ARGB order
to_hex_Argb(self) ==
    BitOr32(BitOr32(BitOr32(Shl32(U32(self.a), 24), Shl32(U32(self.r), 16)),
                    Shl32(U32(self.g), 8)),
            U32(self.b))

\* color.rs 222-225
to_hex(self) ==
    BitOr32(BitOr32(BitOr32(Shl32(U32(self.r), 24), Shl32(U32(self.g), 16)),
                    Shl32(U32(self.b), 8)),
            U32(self.a))

\* color.rs 229-237: >> binds tighter than &
from_hex(val) ==
    Color(as_u8(BitAnd32(Shr32(val, 24), U32(255))),
          as_u8(BitAnd32(Shr32(val, 16), U32(255))),
          as_u8(BitAnd32(Shr32(val, 8), U32(255))),
          as_u8(BitAnd32(val, U32(255))))

\* the u8 values and the 16-bit halves the arguments of the model are made of
Bytes == {0, 1, 127, 128, 255}

Halves == {0, 1, 255, 256, 4660, 32767, 32768, 43981, 65535}

InitColor ==
    /\ pc = "color"
    /\ \/ \E r \in Bytes, g \in Bytes, b \in Bytes, a \in Bytes :
             call = [method |-> "to_hex", arg |-> Color(r, g, b, a)]
       \/ \E hi \in Halves, lo \in Halves :
             call = [method |-> "from_hex", arg |-> [hi |-> hi, lo |-> lo]]
    /\ returned = <<>>
    /\ wrappers = <<>>
    /\ native = <<>>
    /\ texture = <<>>
    /\ decl = <<>>
    /\ emit = NoEmit
    /\ api = NoApi
    /\ sections = <<>>
    /\ file = NoFile
    /\ TypeIdle
    /\ EnumIdle

ColorFrame == <<pc, data_type, type_result, name, raw_parts, value_name,
                name_result, values, idx, seen, code, decl, emit, api, sections,
                file, wrappers, native, texture, call>>

\* the value the next call is made on: the argument, then the first result
Operand == IF returned = <<>> THEN call.arg ELSE returned[1]

\* the method called first, then the other one on its result
Turn == IF (Len(returned) = 0) = (call.method = "to_hex") THEN "to_hex" ELSE "from_hex"

CallToHex ==
    /\ pc = "color"
    /\ Len(returned) < 2
    /\ Turn = "to_hex"
    /\ returned' = Append(returned, to_hex(Operand))
    /\ UNCHANGED ColorFrame

CallFromHex ==
    /\ pc = "color"
    /\ Len(returned) < 2
    /\ Turn = "from_hex"
    /\ returned' = Append(returned, from_hex(Operand))
    /\ UNCHANGED ColorFrame

NextColor ==
    \/ CallToHex
    \/ CallFromHex

SpecColor == InitColor /\ [][NextColor]_vars

\* the byte of a 32-bit value at bits 8k+7..8k, by division
ByteOf(v, k) ==
    CASE k = 3 -> v.hi \div 256
      [] k = 2 -> v.hi % 256
      [] k = 1 -> v.lo \div 256
      [] k = 0 -> v.lo % 256

\* r in bits 31..24, g in bits 23..16, b in bits 15..8, a in bits 7..0
Layout(c, v) ==
    /\ c.r = ByteOf(v, 3)
    /\ c.g = ByteOf(v, 2)
    /\ c.b = ByteOf(v, 1)
    /\ c.a = ByteOf(v, 0)

\* C27: to_hex and from_hex are inverse to each other: from_hex(to_hex(c)) = c
\* for every color c, to_hex(from_hex(v)) = v for every 32-bit value v, with r
\* in bits 31..24, g in bits 23..16, b in bits 15..8 and a in bits 7..0.
C27_HexRoundTrip ==
    pc = "color" =>
        /\ Len(returned) = 2 => returned[2] = call.arg
        /\ (Len(returned) >= 1 /\ call.method = "to_hex") =>
              Layout(call.arg, returned[1])
        /\ (Len(returned) >= 1 /\ call.method = "from_hex") =>
              Layout(returned[1], call.arg)

\* 0x80FF017F and the color (128, 255, 1, 127), in both directions
C27_Witness ==
    /\ pc = "color"
    /\ call = [method |-> "to_hex", arg |-> Color(128, 255, 1, 127)]
    /\ returned = <<[hi |-> 33023, lo |-> 383], Color(128, 255, 1, 127)>>

C27_WitnessFromHex ==
    /\ pc = "color"
    /\ call = [method |-> "from_hex", arg |-> [hi |-> 43981, lo |-> 4660]]
    /\ returned = <<Color(171, 205, 18, 52), [hi |-> 43981, lo |-> 4660]>>

---------------------------------------------------------------------------
(* The Color constants of the wrapper (src/color.rs) and the generated     *)
(* colors module                                                           *)

\* color.rs 27-207: the associated constants Color::NAME, in source order
ColorConstants ==
    <<<<"LIGHTGRAY", Color(200, 200, 200, 255)>>,
      <<"GRAY", Color(130, 130, 130, 255)>>,
      <<"DARKGRAY", Color(80, 80, 80, 255)>>,
      <<"YELLOW", Color(253, 249, 0, 255)>>,
      <<"GOLD", Color(255, 203, 0, 255)>>,
      <<"ORANGE", Color(255, 161, 0, 255)>>,
      <<"PINK", Color(255, 109, 194, 255)>>,
      <<"RED", Color(230, 41, 55, 255)>>,
      <<"MAROON", Color(190, 33, 55, 255)>>,
      <<"GREEN", Color(0, 228, 48, 255)>>,
      <<"LIME", Color(0, 158, 47, 255)>>,
      <<"DARKGREEN", Color(0, 117, 44, 255)>>,
      <<"SKYBLUE", Color(102, 191, 255, 255)>>,
      <<"BLUE", Color(0, 121, 241, 255)>>,
      <<"DARKBLUE", Color(0, 82, 172, 255)>>,
      <<"PURPLE", Color(200, 122, 255, 255)>>,
      <<"VIOLET", Color(135, 60, 190, 255)>>,
      <<"DARKPURPLE", Color(112, 31, 126, 255)>>,
      <<"BEIGE", Color(211, 176, 131, 255)>>,
      <<"BROWN", Color(127, 106, 79, 255)>>,
      <<"DARKBROWN", Color(76, 63, 47, 255)>>,
      <<"WHITE", Color(255, 255, 255, 255)>>,
      <<"BLACK", Color(0, 0, 0, 255)>>, <<"BLANK", Color(0, 0, 0, 0)>>,
      <<"MAGENTA", Color(255, 0, 255, 255)>>,
      <<"RAYWHITE", Color(245, 245, 245, 255)>>>>

\* the decimal text of a natural number
RECURSIVE Decimal(_)
Decimal(n) ==
    IF n < 10 THEN SubSeq("0123456789", n + 1, n + 1)
    ELSE Decimal(n \div 10) \o SubSeq("0123456789", (n % 10) + 1, (n % 10) + 1)

\* the line of the generated colors module that declares NAME with the
\* quadruple of the color c
DeclaresColor(id, c) ==
    "\tpub const " \o id \o ": super::Color = super::Color { r: " \o Decimal(c.r)
        \o ", g: " \o Decimal(c.g) \o ", b: " \o Decimal(c.b) \o ", a: "
        \o Decimal(c.a) \o " };\n"

\* the name a line of the colors module declares: the text between
\* "\tpub const " and the first ':'
DeclaredName(line) == Slice(line, Len("\tpub const "), find(line, ":").pos)

\* the lines the generator pushed between "pub mod colors {" and its "}"
EmittedColors == SubSeq(Entries("prelude")[1].pieces, 6, 31)

\* C28: the generator's hard-coded color table and the wrapper's Color
\* constants agree: both define the same set of 26 names, and for every name
\* the (r, g, b, a) quadruple emitted into the generated colors module equals
\* the quadruple of the wrapper constant Color::NAME.
C28_ColorTablesAgree ==
    Entries("prelude") # <<>> =>
        /\ Len(Entries("prelude")[1].pieces) = 32
        /\ Cardinality({ColorConstants[k][1] : k \in 1..Len(ColorConstants)}) = 26
        /\ {DeclaredName(EmittedColors[k]) : k \in 1..Len(EmittedColors)}
              = {ColorConstants[k][1] : k \in 1..Len(ColorConstants)}
        /\ {EmittedColors[k] : k \in 1..Len(EmittedColors)}
              = {DeclaresColor(ColorConstants[k][1], ColorConstants[k][2]) :
                    k \in 1..Len(ColorConstants)}

\* the prelude of a run on an Api with defines has been pushed; its last
\* color line declares RAYWHITE as the wrapper does
C28_Witness ==
    /\ pc = "structs"
    /\ Len(api.defines) = MaxDefines
    /\ Len(Entries("prelude")) = 1
    /\ EmittedColors[26] = DeclaresColor("RAYWHITE", Color(245, 245, 245, 255))
    /\ ColorConstants[26] = <<"RAYWHITE", Color(245, 245, 245, 255)>>

---------------------------------------------------------------------------
(* format_value_name and the ranges it slices                              *)

\* the parts of the value name that the closure is mapped over
MappedParts == skip(split(value_name), prefix_count(name))

\* C29: format_value_name completes without a fatal error for every enum name
\* and every ASCII raw value name: in each segment that is lower-cased the
\* range [i, j) satisfies i <= j <= segment length, also when the IVEC and 2D
\* adjustments both apply, when the segment is exactly "2D" or "IVEC", and
\* when the value name has no more segments than the skip count.
C29_FormatValueNameCompletes ==
    /\ pc # "name_panicked"
    /\ \A k \in 1..Len(MappedParts) :
          LET part == MappedParts[k]
              r == LowerRange(part)
          IN  (Len(part) > 1 /\ ~Exempt(name, part)) =>
                  /\ 1 <= r.i
                  /\ r.i <= r.j
                  /\ r.j <= Len(part)
    /\ (Len(split(value_name)) <= prefix_count(name) /\ pc = "name_done") =>
          name_result = ""

\* both adjustments on one segment, then a segment that is exactly "2D"
C29_Witness ==
    /\ pc = "name_done"
    /\ name = "CameraMode"
    /\ raw_parts = <<"IVEC", "IVEC2D", "2D">>
    /\ LowerRange("IVEC2D") = [i |-> 2, j |-> 5]
    /\ LowerRange("2D") = [i |-> 1, j |-> 1]
    /\ name_result = "IVec2D2D"

\* a value name with no more segments than the skip count
C29_WitnessShortName ==
    /\ pc = "name_done"
    /\ name = "PixelFormat"
    /\ raw_parts = <<"IVEC", "2D">>
    /\ name_result = ""

---------------------------------------------------------------------------
(* The identifiers of one plain enum                                       *)

\* the values of the input that are emitted among the first n: the first of
\* each numeric code
RECURSIVE KeptValues(_)
KeptValues(n) ==
    IF n = 0 THEN <<>>
    ELSE IF FirstOfItsCode(n) THEN Append(KeptValues(n - 1), values[n])
    ELSE KeptValues(n - 1)

\* the raw name without the segments that are skipped and without underscores
Remainder(raw) == collect(skip(split(raw), prefix_count(name)))

\* C30 as stated: within one emitted plain enum, the discriminant identifiers
\* are non-empty and pairwise distinct whenever the raw value names of the
\* input are pairwise distinct.
C30_DistinctIdentifiers ==
    (/\ EnumDone
     /\ EmittedAsPlainEnum
     /\ \A i, j \in 1..Len(values) : i # j => values[i].name # values[j].name)
        => /\ \A k \in 1..Len(Variants) : Variants[k].id # ""
           /\ \A k, l \in 1..Len(Variants) :
                 k # l => Variants[k].id # Variants[l].id

\* C30: within one emitted plain enum the discriminants have pairwise
\* distinct numeric codes, and the identifier of each is, up to ASCII case,
\* the raw name of the first value with that code without its skipped prefix
\* segments and without underscores: it is non-empty exactly when that
\* remainder is, and two identifiers differ whenever the remainders differ
\* up to case.  Distinct raw names or distinct codes do not make the
\* identifiers distinct or non-empty.
C30_IdentifiersFollowRemainders ==
    (EnumDone /\ EmittedAsPlainEnum) =>
        LET kept == KeptValues(Len(values))
        IN  /\ Len(Variants) = Len(kept)
            /\ \A k \in 1..Len(Variants) :
                  /\ make_ascii_lowercase(Variants[k].id)
                        = make_ascii_lowercase(Remainder(kept[k].name))
                  /\ Variants[k].id = "" <=> Remainder(kept[k].name) = ""
                  /\ \A l \in 1..Len(Variants) :
                        /\ k # l => Variants[k].value # Variants[l].value
                        /\ make_ascii_lowercase(Remainder(kept[k].name))
                              # make_ascii_lowercase(Remainder(kept[l].name))
                           => Variants[k].id # Variants[l].id

\* two values with distinct raw names and distinct codes in an enum that skips
\* two segments: both discriminants get the empty identifier
C30_Witness ==
    /\ EnumDone
    /\ name = "PixelFormat"
    /\ values = <<[name |-> "FOO_A", value |-> U32(0)],
                  [name |-> "FOO_B", value |-> U32(3)]>>
    /\ Variants = <<Item("variant", "", U32(0)), Item("variant", "", U32(3))>>

=============================================================================
